---- MODULE Spec2Model ----
(***************************************************************************)
(* Model of the breach aggregation orchestrator of leakguard-bot           *)
(* (BreachCheckService), its two source checkers (LeakCheckApiService,     *)
(* XposedOrNotApiService), the Redis cache they share (RedisCacheService),  *)
(* the 24h monitoring loop and the fetch layer with its pool of pages      *)
(* (PuppeteerService).                                                     *)
(*                                                                         *)
(* Strings are sequences of one-character strings.  A Redis entry is a     *)
(* record [val, ttl]; the value is what JSON.parse gives back for what     *)
(* JSON.stringify stored.  A step is a turn of the event loop: an answer   *)
(* of Redis, of a remote source or of the browser arrives and the code     *)
(* that awaited it runs to its next await of such an answer.  A cache      *)
(* command is atomic at the Redis server, a remote answer is a             *)
(* nondeterministic choice made when the answer arrives.                   *)
(***************************************************************************)
EXTENDS Integers, Sequences, FiniteSets, TLC

VARIABLES
  redis,            \* the Redis store: key -> [val, ttl]; absent keys are not in the domain
  monitoredEmails,  \* BreachCheckService.monitoredEmails, in insertion order
  call,             \* per caller: the orchestrator operation it is running
  inv,              \* per caller and checker: the checker invocation of that operation
  mon,              \* the monitoring loop (monitorEmails)
  used,             \* how many events of the environment have happened
  pagePool,         \* PuppeteerService.pagePool: the pages waiting for a fetch, oldest first
  pages,            \* how many pages addPageToPool has put into the pool
  fetch,            \* per fetch: the scrapeJSON call it stands for
  dedup,            \* a breach list and what removeDuplicates made of it
  clearance,        \* the getCfClearance call: its retries, its attempt and where it stands
  userStates,       \* TelegramBotUpdate.userStates: user id -> [state, attempts]
  handler           \* per user: the handler of the front-end that is running for them

\* the fetch layer, apart from the orchestrator and the checkers
fetchVars == <<pagePool, pages, fetch>>

\* the front-end: the dialogue states and the running handlers
frontVars == <<userStates, handler>>

vars == <<redis, monitoredEmails, call, inv, mon, used, fetchVars, dedup, clearance, frontVars>>

----------------------------------------------------------------------------
(* Bounds of the model *)

\* most events of the environment in a run: operations started by a user,
\* ticks of the monitoring timer, key expiries
MaxEvents == 4

\* longest breach list given to removeDuplicates on its own
MaxLen == 3

\* most applications of removeDuplicates to a list and to what it made of it
MaxApplications == 2

\* fetches in flight beyond the pages of the pool
MaxOverflow == 1

\* largest retries given to getCfClearance
MaxAttempts == 3

----------------------------------------------------------------------------
(* Program constants *)

CHECKER_TIMEOUT_MS == 35000
EMAIL_TTL == 24 * 60 * 60
\* variant: the snapshot written with the interval's milliseconds
SNAPSHOT_TTL_MS == 24 * 60 * 60 * 1000
SNAPSHOT_TTL == 24 * 60 * 60
PASSWORD_TTL == 24 * 60 * 60
ANALYTICS_TTL == 7 * 24 * 60 * 60
\* variant: the subscription written with the TTL of the other entries
MONITOR_TTL_DAY == 24 * 60 * 60
MONITOR_TTL == 0
LEAKCHECK_TTL == 24 * 60 * 60
XPOSED_TTL == 24 * 60 * 60

\* this.checkers = [leakCheckApiService, xposedOrNotApiService]
checkers == <<"LeakCheckApiService", "XposedOrNotApiService">>
Checkers == {checkers[i] : i \in 1..Len(checkers)}

----------------------------------------------------------------------------
(* Strings *)

Whitespace == {" ", "\t", "\n"}
Digits == {"0", "1", "2", "3", "4", "5", "6", "7", "8", "9"}
LowerLetters ==
  <<"a", "b", "c", "d", "e", "f", "g", "h", "i", "j", "k", "l", "m",
    "n", "o", "p", "q", "r", "s", "t", "u", "v", "w", "x", "y", "z">>
UpperLetters ==
  <<"A", "B", "C", "D", "E", "F", "G", "H", "I", "J", "K", "L", "M",
    "N", "O", "P", "Q", "R", "S", "T", "U", "V", "W", "X", "Y", "Z">>
Letters == {LowerLetters[i] : i \in 1..26} \cup {UpperLetters[i] : i \in 1..26}

\* String.prototype.toLowerCase on one character
LowerChar(c) ==
  IF \E i \in 1..26 : UpperLetters[i] = c
  THEN LowerLetters[CHOOSE i \in 1..26 : UpperLetters[i] = c]
  ELSE c

toLowerCase(s) == [i \in 1..Len(s) |-> LowerChar(s[i])]

\* variant: the pattern without its "\.[^\s@]+" tail, /^[^\s@]+@[^\s@]+$/
isValidEmailNoTld(email) ==
  \E i \in 1..Len(email) :
    /\ i > 1
    /\ i < Len(email)
    /\ email[i] = "@"
    /\ \A k \in (1..Len(email)) \ {i} : email[k] \notin (Whitespace \cup {"@"})

\* /^[^\s@]+@[^\s@]+\.[^\s@]+$/.test(email): one "@" at i, a "." at j after
\* a non-empty domain part and before a non-empty rest, and no whitespace or
\* further "@" anywhere else ("." itself is in [^\s@])
isValidEmail(email) ==
  \E i \in 1..Len(email) : \E j \in 1..Len(email) :
    /\ i > 1
    /\ email[i] = "@"
    /\ j > i + 1
    /\ j < Len(email)
    /\ email[j] = "."
    /\ \A k \in (1..Len(email)) \ {i, j} : email[k] \notin (Whitespace \cup {"@"})

RECURSIVE CountIn(_, _)
\* (password.match(/[class]/g) || []).length
CountIn(s, class) ==
  IF s = <<>> THEN 0
  ELSE (IF Head(s) \in class THEN 1 ELSE 0) + CountIn(Tail(s), class)

RECURSIVE CountNotIn(_, _)
\* (password.match(/[^class]/g) || []).length
CountNotIn(s, class) ==
  IF s = <<>> THEN 0
  ELSE (IF Head(s) \notin class THEN 1 ELSE 0) + CountNotIn(Tail(s), class)

\* variant: specialChars counted with /[^a-zA-Z]/g, digits included
computePasswordStatsNonLetter(password) ==
  [found |-> FALSE,
   count |-> 0,
   digits |-> CountIn(password, Digits),
   alphabets |-> CountIn(password, Letters),
   specialChars |-> CountNotIn(password, Letters),
   length |-> Len(password)]

computePasswordStats(password) ==
  [found |-> FALSE,
   count |-> 0,
   digits |-> CountIn(password, Digits),
   alphabets |-> CountIn(password, Letters),
   specialChars |-> CountNotIn(password, Letters \cup Digits),
   length |-> Len(password)]

----------------------------------------------------------------------------
(* Breach lists *)

Undefined == "undefined"

Breach(name, domain, date) == [Name |-> name, Domain |-> domain, BreachDate |-> date]

RECURSIVE removeDuplicatesFrom(_, _)
\* the filter of removeDuplicates with its `seen` set
removeDuplicatesFrom(breaches, seen) ==
  IF breaches = <<>> THEN <<>>
  ELSE LET key == toLowerCase(Head(breaches).Name)
       IN IF key \in seen
          THEN removeDuplicatesFrom(Tail(breaches), seen)
          ELSE <<Head(breaches)>> \o removeDuplicatesFrom(Tail(breaches), seen \cup {key})

RECURSIVE removeDuplicatesExactFrom(_, _)
\* variant: the key is b.Name as it is, without toLowerCase()
removeDuplicatesExactFrom(breaches, seen) ==
  IF breaches = <<>> THEN <<>>
  ELSE LET key == Head(breaches).Name
       IN IF key \in seen
          THEN removeDuplicatesExactFrom(Tail(breaches), seen)
          ELSE <<Head(breaches)>> \o removeDuplicatesExactFrom(Tail(breaches), seen \cup {key})

removeDuplicatesExact(breaches) == removeDuplicatesExactFrom(breaches, {})

RECURSIVE removeDuplicatesLastFrom(_, _)
\* variant: `seen` holds the key of the entry before only
removeDuplicatesLastFrom(breaches, seen) ==
  IF breaches = <<>> THEN <<>>
  ELSE LET key == toLowerCase(Head(breaches).Name)
       IN IF key \in seen
          THEN removeDuplicatesLastFrom(Tail(breaches), {key})
          ELSE <<Head(breaches)>> \o removeDuplicatesLastFrom(Tail(breaches), {key})

removeDuplicatesLast(breaches) == removeDuplicatesLastFrom(breaches, {})

removeDuplicates(breaches) == removeDuplicatesFrom(breaches, {})

RECURSIVE collectAllOrNothing(_)
\* variant: Promise.all in place of Promise.allSettled, its rejection caught
\* as an empty list
collectAllOrNothing(results) ==
  IF \E i \in 1..Len(results) : results[i].status = "rejected" THEN <<>>
  ELSE IF results = <<>> THEN <<>>
  ELSE Head(results).value \o collectAllOrNothing(Tail(results))

\* results.forEach of checkEmailBreaches: push the value of every fulfilled
\* result, in the order of the results array (the order of this.checkers)
RECURSIVE collectBreaches(_)
collectBreaches(results) ==
  IF results = <<>> THEN <<>>
  ELSE (IF Head(results).status = "fulfilled" THEN Head(results).value ELSE <<>>)
       \o collectBreaches(Tail(results))

\* a value that may be null / undefined
None == <<FALSE>>
Some(v) == <<TRUE, v>>

\* newBreaches of monitorEmails; previous is None for null
RECURSIVE filterNew(_, _)
filterNew(breaches, previous) ==
  IF breaches = <<>> THEN <<>>
  ELSE LET b == Head(breaches)
           known == /\ previous[1]
                    /\ \E p \in 1..Len(previous[2]) :
                          /\ previous[2][p].Name = b.Name
                          /\ previous[2][p].Domain = b.Domain
       IN (IF known THEN <<>> ELSE <<b>>) \o filterNew(Tail(breaches), previous)

----------------------------------------------------------------------------
(* The Redis cache: RedisCacheService *)

Key(ns, id) == <<ns, id>>

\* JSON.stringify / JSON.parse of a cache payload
JSONstringify(value) == [json |-> value]
JSONparse(data) == data.json

\* client.get(key) gave a non-empty string
Has(key) == key \in DOMAIN redis
\* get(): data ? JSON.parse(data) : null, for a key that Has
Get(key) == JSONparse(redis[key].val)

\* set(): SET key value EX ttl, or SET key value when ttl is 0 / undefined
Put(store, key, value, ttl) ==
  [k \in DOMAIN store \cup {key} |->
     IF k = key THEN [val |-> JSONstringify(value), ttl |-> ttl] ELSE store[k]]

Del(store, removed) == [k \in DOMAIN store \ removed |-> store[k]]

----------------------------------------------------------------------------
(* Inputs and remote answers *)

\* the interactive caller (the front-end) and the monitoring loop as a caller
Users == {<<"user", 1>>}
Monitor == <<"mon", 0>>
Callers == Users \cup {Monitor}

ValidEmails == {<<"a", "@", "b", ".", "c">>}
MalformedEmails ==
  {<<>>,
   <<"n", "o", "t">>,
   <<"a", "@", "b">>,
   <<"@", "b", ".", "c">>,
   <<"a", "@", ".", "c">>,
   <<"a", "@", "b", ".">>,
   <<"a", " ", "@", "b", ".", "c">>,
   <<"a", "@", "@", "b", ".", "c">>}
EmailInputs == ValidEmails \cup MalformedEmails

ChatIds == {7}

NameAd == <<"A", "d">>
NameAD == <<"A", "D">>
NameX == <<"X">>
Namex == <<"x">>
NameB == <<"B">>

\* bodies of the LeakCheck public API: {success, sources: [{name, date}]}
LeakCheckSources ==
  {<<>>,
   <<[name |-> NameX, date |-> Undefined], [name |-> NameAd, date |-> "2013-10"],
     [name |-> Namex, date |-> Undefined]>>}
LeakCheckResponses ==
  {[kind |-> "error", success |-> FALSE, sources |-> <<>>],
   [kind |-> "ok", success |-> FALSE, sources |-> <<>>]}
  \cup {[kind |-> "ok", success |-> TRUE, sources |-> l] : l \in LeakCheckSources}

\* results of scrapeJSON for /check-email: a throw, or {breaches?: [string[]]}
XposedBreachNames == {<<NameB, NameAD>>}
XposedCheckResults ==
  {[kind |-> "error", breaches |-> <<FALSE>>],
   [kind |-> "json", breaches |-> <<FALSE>>]}
  \cup {[kind |-> "json", breaches |-> <<TRUE, l>>] : l \in XposedBreachNames}

RECURSIVE encodeURIComponent(_)
\* encodeURIComponent on the characters of the inputs that it escapes
encodeURIComponent(s) ==
  IF s = <<>> THEN <<>>
  ELSE (CASE Head(s) = "@" -> <<"%", "4", "0">>
          [] Head(s) = " " -> <<"%", "2", "0">>
          [] OTHER -> <<Head(s)>>)
       \o encodeURIComponent(Tail(s))

----------------------------------------------------------------------------
(* Orchestrator calls *)

NoResult == [status |-> "none", value |-> <<>>, reason |-> "none"]
Pending == [status |-> "pending", value |-> <<>>, reason |-> "none"]
Fulfilled(v) == [status |-> "fulfilled", value |-> v, reason |-> "none"]
Rejected(r) == [status |-> "rejected", value |-> <<>>, reason |-> r]

IdleCall ==
  [op |-> "none", arg |-> <<>>, pc |-> "idle",
   settled |-> [k \in Checkers |-> NoResult], order |-> <<>>,
   result |-> <<>>, error |-> "none", io |-> {}]

\* request is the URL of the remote request the invocation has sent, <<>> for none
IdleInv == [pc |-> "idle", op |-> "none", arg |-> <<>>, request |-> <<>>]
StartedInv(op, arg) == [pc |-> "get", op |-> op, arg |-> arg, request |-> <<>>]

\* a caller can issue an operation when it is not inside one
Free(c) == call[c].pc \in {"idle", "returned", "thrown"}

\* variant: the results in the order in which the checkers settled
resultsInCompletionOrder(c) ==
  [i \in 1..Len(call[c].order) |-> call[c].settled[call[c].order[i]]]

\* the results array of Promise.allSettled: one entry per checker, in the
\* order of this.checkers
resultsOf(c) == [i \in 1..Len(checkers) |-> call[c].settled[checkers[i]]]

\* variant: the cache lookup is skipped
entryPathUncached(email, cacheKey) ==
  IF ~isValidEmail(email) THEN "invalid" ELSE "miss"

\* variant: a cached value with nothing in it counts as a miss
entryPathEmptyMisses(email, cacheKey) ==
  IF ~isValidEmail(email) THEN "invalid"
  ELSE IF Has(cacheKey) /\ DOMAIN Get(cacheKey) # {} THEN "hit"
  ELSE "miss"

\* which path the head of checkEmailBreaches / getAnalytics takes: get()
\* gives the parsed value of a key that is there, and if (cached) takes any
\* array or object, the empty array too
entryPath(email, cacheKey) ==
  IF ~isValidEmail(email) THEN "invalid"
  ELSE IF Has(cacheKey) THEN "hit"
  ELSE "miss"

\* checkEmailBreaches(email) up to the fan-out (lines 31-49)
BeginCheckEmailBreaches(c, email) ==
  LET cacheKey == Key("email", email)
      path == entryPath(email, cacheKey)
  IN /\ call' = [call EXCEPT ![c] =
           CASE path = "invalid" ->
                  [IdleCall EXCEPT !.op = "checkEmailBreaches", !.arg = email,
                                   !.pc = "thrown", !.error = "INVALID_EMAIL"]
             [] path = "hit" ->
                  [IdleCall EXCEPT !.op = "checkEmailBreaches", !.arg = email,
                                   !.pc = "returned", !.result = Get(cacheKey),
                                   !.io = {<<"get", "email">>}]
             [] OTHER ->
                  [IdleCall EXCEPT !.op = "checkEmailBreaches", !.arg = email,
                                   !.pc = "awaitCheckers",
                                   !.settled = [k \in Checkers |-> Pending],
                                   !.io = {<<"get", "email">>}
                                          \cup {<<"call", k>> : k \in Checkers}]]
     /\ inv' = [inv EXCEPT ![c] =
           IF path = "miss"
           THEN [k \in Checkers |-> StartedInv("checkEmailBreaches", email)]
           ELSE [k \in Checkers |-> IdleInv]]

CheckEmailBreaches(c, email) ==
  /\ c \in Users
  /\ Free(c)
  /\ BeginCheckEmailBreaches(c, email)
  /\ UNCHANGED <<redis, monitoredEmails, mon, fetchVars, dedup, clearance, frontVars>>
  /\ used < MaxEvents
  /\ used' = used + 1

\* a checker promise settles: pTimeout passes the outcome on unless the
\* watchdog has already rejected
settle(c, k, outcome) ==
  IF call[c].pc = "awaitCheckers" /\ call[c].settled[k].status = "pending"
  THEN [call EXCEPT ![c].settled[k] = outcome, ![c].order = @ \o <<k>>]
  ELSE call

\* variant: the checker promises are awaited without pTimeout
NoCheckerTimeout(c, k) ==
  /\ FALSE
  /\ UNCHANGED vars

\* pTimeout(..., CHECKER_TIMEOUT_MS) rejects; the checker itself keeps running.
\* LeakCheckApiService.checkPassword has no await: its promise is resolved
\* before the timer is armed
CheckerTimeout(c, k) ==
  /\ call[c].pc = "awaitCheckers"
  /\ call[c].settled[k].status = "pending"
  /\ ~(k = checkers[1] /\ call[c].op = "checkPassword")
  /\ call' = settle(c, k, Rejected("timeout"))
  /\ UNCHANGED <<redis, monitoredEmails, inv, mon, used, fetchVars, dedup, clearance, frontVars>>

\* checkEmailBreaches after Promise.allSettled (lines 51-68)
FinishCheckEmailBreaches(c) ==
  /\ call[c].pc = "awaitCheckers"
  /\ call[c].op = "checkEmailBreaches"
  /\ \A k \in Checkers : call[c].settled[k].status \in {"fulfilled", "rejected"}
  /\ LET uniqueBreaches == removeDuplicates(collectBreaches(resultsOf(c)))
     IN /\ redis' = Put(redis, Key("email", call[c].arg), uniqueBreaches, EMAIL_TTL)
        /\ call' = [call EXCEPT ![c].pc = "returned",
                                ![c].result = uniqueBreaches,
                                ![c].io = @ \cup {<<"set", "email">>}]
  /\ UNCHANGED <<monitoredEmails, inv, mon, used, fetchVars, dedup, clearance, frontVars>>

----------------------------------------------------------------------------
(* LeakCheckApiService *)

LeakCheck == checkers[1]
Xposed == checkers[2]

\* response.data.sources.map(...) of LeakCheckApiService.checkEmailBreaches
leakCheckBreaches(sources) ==
  [i \in 1..Len(sources) |-> Breach(sources[i].name, Undefined, sources[i].date)]

\* `${this.apiUrl}?key=YOUR_KEY&check=${encodeURIComponent(email)}`
leakCheckUrl(email) == <<"leakcheck?key=YOUR_KEY&check=", encodeURIComponent(email)>>

\* cache lookup of leakcheck:{email} (lines 24-29)
LeakCheckGet(c) ==
  LET cacheKey == Key("leakcheck", inv[c][LeakCheck].arg)
  IN /\ inv[c][LeakCheck].pc = "get"
     /\ inv[c][LeakCheck].op = "checkEmailBreaches"
     /\ IF Has(cacheKey)
        THEN /\ call' = settle(c, LeakCheck, Fulfilled(Get(cacheKey)))
             /\ inv' = [inv EXCEPT ![c][LeakCheck].pc = "done"]
        ELSE /\ call' = call
             /\ inv' = [inv EXCEPT ![c][LeakCheck].pc = "remote",
                                   ![c][LeakCheck].request = leakCheckUrl(inv[c][LeakCheck].arg)]
     /\ UNCHANGED <<redis, monitoredEmails, mon, used, fetchVars, dedup, clearance, frontVars>>

\* the HTTP GET answers (lines 31-66)
LeakCheckHttp(c, response) ==
  LET cacheKey == Key("leakcheck", inv[c][LeakCheck].arg)
      breaches == leakCheckBreaches(response.sources)
  IN /\ inv[c][LeakCheck].pc = "remote"
     /\ inv[c][LeakCheck].op = "checkEmailBreaches"
     /\ inv' = [inv EXCEPT ![c][LeakCheck].pc = "done"]
     /\ CASE response.kind = "error" ->
               /\ call' = settle(c, LeakCheck, Rejected("LEAKCHECK_ERROR"))
               /\ UNCHANGED redis
          [] response.kind = "ok" /\ ~response.success ->
               /\ call' = settle(c, LeakCheck, Fulfilled(<<>>))
               /\ UNCHANGED redis
          [] OTHER ->
               /\ redis' = Put(redis, cacheKey, breaches, LEAKCHECK_TTL)
               /\ call' = settle(c, LeakCheck, Fulfilled(breaches))
     /\ UNCHANGED <<monitoredEmails, mon, used, fetchVars, dedup, clearance, frontVars>>

----------------------------------------------------------------------------
(* XposedOrNotApiService *)

\* (result.breaches?.[0] || []).map(...) of checkEmailBreaches
xposedBreaches(result) ==
  LET names == IF result.breaches[1] THEN result.breaches[2] ELSE <<>>
  IN [i \in 1..Len(names) |-> Breach(names[i], Undefined, Undefined)]

\* `${this.apiUrl}/check-email/${encodeURIComponent(email)}?include_details=false`
xposedCheckUrl(email) ==
  <<"xposedornot/check-email/", encodeURIComponent(email), "?include_details=false">>

\* cache lookup of xposed:{email} (lines 67-72)
XposedGet(c) ==
  LET cacheKey == Key("xposed", inv[c][Xposed].arg)
  IN /\ inv[c][Xposed].pc = "get"
     /\ inv[c][Xposed].op = "checkEmailBreaches"
     /\ IF Has(cacheKey)
        THEN /\ call' = settle(c, Xposed, Fulfilled(Get(cacheKey)))
             /\ inv' = [inv EXCEPT ![c][Xposed].pc = "done"]
        ELSE /\ call' = call
             /\ inv' = [inv EXCEPT ![c][Xposed].pc = "remote",
                                   ![c][Xposed].request = xposedCheckUrl(inv[c][Xposed].arg)]
     /\ UNCHANGED <<redis, monitoredEmails, mon, used, fetchVars, dedup, clearance, frontVars>>

\* scrapeJSON under its 30 s pTimeout settles (lines 74-101)
XposedScrape(c, result) ==
  LET cacheKey == Key("xposed", inv[c][Xposed].arg)
      breaches == xposedBreaches(result)
  IN /\ inv[c][Xposed].pc = "remote"
     /\ inv[c][Xposed].op = "checkEmailBreaches"
     /\ inv' = [inv EXCEPT ![c][Xposed].pc = "done"]
     /\ IF result.kind = "error"
        THEN /\ call' = settle(c, Xposed, Rejected("XPOSED_OR_NOT_ERROR"))
             /\ UNCHANGED redis
        ELSE /\ redis' = Put(redis, cacheKey, breaches, XPOSED_TTL)
             /\ call' = settle(c, Xposed, Fulfilled(breaches))
     /\ UNCHANGED <<monitoredEmails, mon, used, fetchVars, dedup, clearance, frontVars>>

----------------------------------------------------------------------------
(* getAnalytics *)

getEmptyAnalytics ==
  [breaches |-> <<>>, breachesDetails |-> <<>>, industries |-> <<>>,
   passwordStrength |-> [PlainText |-> 0, StrongHash |-> 0, Unknown |-> 0],
   risk |-> [label |-> "Unknown", score |-> 0],
   exposedData |-> <<>>, years |-> <<>>]

\* results of scrapeJSON for /breach-analytics: a throw, or a body of which
\* BreachesSummary.site (already split at ";") and BreachMetrics.risk[0] vary
XposedAnalyticsResults ==
  {[kind |-> "error", site |-> <<>>, risk |-> <<FALSE>>],
   [kind |-> "json", site |-> <<>>, risk |-> <<FALSE>>],
   [kind |-> "json", site |-> <<"Adobe", "", "Canva">>,
    risk |-> <<TRUE, [risk_label |-> "High", risk_score |-> 7]>>]}

RECURSIVE filterBoolean(_)
\* .filter(Boolean) on the pieces of site.split(';')
filterBoolean(parts) ==
  IF parts = <<>> THEN <<>>
  ELSE (IF Head(parts) = "" THEN <<>> ELSE <<Head(parts)>>) \o filterBoolean(Tail(parts))

\* the Analytics object built by XposedOrNotApiService.getAnalytics
xposedAnalytics(result) ==
  LET risk == IF result.risk[1] THEN result.risk[2]
              ELSE [risk_label |-> "Unknown", risk_score |-> 0]
  IN [getEmptyAnalytics EXCEPT
        !.breaches = filterBoolean(result.site),
        !.risk = [label |-> risk.risk_label, score |-> risk.risk_score]]

\* variant: the filter on checker.getAnalytics is left out
everyCheckerHasGetAnalytics(k) == TRUE

\* the checkers that implement the optional getAnalytics
hasGetAnalytics(k) == k = Xposed

\* results.forEach of getAnalytics: every fulfilled result overwrites
RECURSIVE lastFulfilled(_, _)
lastFulfilled(results, analytics) ==
  IF results = <<>> THEN analytics
  ELSE lastFulfilled(Tail(results),
                     IF Head(results).status = "fulfilled"
                     THEN Head(results).value ELSE analytics)

\* getAnalytics(email) up to the fan-out (lines 117-136)
GetAnalytics(c, email) ==
  LET cacheKey == Key("analytics", email)
      path == entryPath(email, cacheKey)
  IN /\ c \in Users
     /\ Free(c)
     /\ call' = [call EXCEPT ![c] =
           CASE path = "invalid" ->
                  [IdleCall EXCEPT !.op = "getAnalytics", !.arg = email,
                                   !.pc = "thrown", !.error = "INVALID_EMAIL"]
             [] path = "hit" ->
                  [IdleCall EXCEPT !.op = "getAnalytics", !.arg = email,
                                   !.pc = "returned", !.result = Get(cacheKey),
                                   !.io = {<<"get", "analytics">>}]
             [] OTHER ->
                  [IdleCall EXCEPT !.op = "getAnalytics", !.arg = email,
                                   !.pc = "awaitCheckers",
                                   !.settled = [k \in Checkers |->
                                      IF hasGetAnalytics(k) THEN Pending ELSE NoResult],
                                   !.io = {<<"get", "analytics">>}
                                          \cup {<<"call", k>> : k \in {x \in Checkers : hasGetAnalytics(x)}}]]
     /\ inv' = [inv EXCEPT ![c] =
           [k \in Checkers |->
              IF path = "miss" /\ hasGetAnalytics(k)
              THEN StartedInv("getAnalytics", email) ELSE IdleInv]]
     /\ UNCHANGED <<redis, monitoredEmails, mon, fetchVars, dedup, clearance, frontVars>>
     /\ used < MaxEvents
     /\ used' = used + 1

\* `${this.apiUrl}/breach-analytics?email=${encodeURIComponent(email)}`
xposedAnalyticsUrl(email) == <<"xposedornot/breach-analytics?email=", encodeURIComponent(email)>>

\* cache lookup of xposed_analytics:{email} (lines 170-175)
XposedAnalyticsGet(c) ==
  LET cacheKey == Key("xposed_analytics", inv[c][Xposed].arg)
  IN /\ inv[c][Xposed].pc = "get"
     /\ inv[c][Xposed].op = "getAnalytics"
     /\ IF Has(cacheKey)
        THEN /\ call' = settle(c, Xposed, Fulfilled(Get(cacheKey)))
             /\ inv' = [inv EXCEPT ![c][Xposed].pc = "done"]
        ELSE /\ call' = call
             /\ inv' = [inv EXCEPT ![c][Xposed].pc = "remote",
                                   ![c][Xposed].request = xposedAnalyticsUrl(inv[c][Xposed].arg)]
     /\ UNCHANGED <<redis, monitoredEmails, mon, used, fetchVars, dedup, clearance, frontVars>>

\* variant: a fetch that fails rejects getAnalytics of the checker
XposedAnalyticsScrapeRejects(c, result) ==
  LET cacheKey == Key("xposed_analytics", inv[c][Xposed].arg)
      analytics == xposedAnalytics(result)
  IN /\ inv[c][Xposed].pc = "remote"
     /\ inv[c][Xposed].op = "getAnalytics"
     /\ inv' = [inv EXCEPT ![c][Xposed].pc = "done"]
     /\ IF result.kind = "error"
        THEN /\ call' = settle(c, Xposed, Rejected("XPOSED_OR_NOT_ERROR"))
             /\ UNCHANGED redis
        ELSE /\ redis' = Put(redis, cacheKey, analytics, ANALYTICS_TTL)
             /\ call' = settle(c, Xposed, Fulfilled(analytics))
     /\ UNCHANGED <<monitoredEmails, mon, used, fetchVars, dedup, clearance, frontVars>>

\* scrapeJSON for the analytics settles (lines 177-249)
XposedAnalyticsScrape(c, result) ==
  LET cacheKey == Key("xposed_analytics", inv[c][Xposed].arg)
      analytics == xposedAnalytics(result)
  IN /\ inv[c][Xposed].pc = "remote"
     /\ inv[c][Xposed].op = "getAnalytics"
     /\ inv' = [inv EXCEPT ![c][Xposed].pc = "done"]
     /\ IF result.kind = "error"
        THEN /\ call' = settle(c, Xposed, Fulfilled(getEmptyAnalytics))
             /\ UNCHANGED redis
        ELSE /\ redis' = Put(redis, cacheKey, analytics, ANALYTICS_TTL)
             /\ call' = settle(c, Xposed, Fulfilled(analytics))
     /\ UNCHANGED <<monitoredEmails, mon, used, fetchVars, dedup, clearance, frontVars>>

\* getAnalytics after Promise.allSettled (lines 138-154)
FinishGetAnalytics(c) ==
  /\ call[c].pc = "awaitCheckers"
  /\ call[c].op = "getAnalytics"
  /\ \A k \in Checkers : call[c].settled[k].status # "pending"
  /\ LET results == SelectSeq(resultsOf(c), LAMBDA r : r.status # "none")
         analytics == lastFulfilled(results, getEmptyAnalytics)
     IN /\ redis' = Put(redis, Key("analytics", call[c].arg), analytics, ANALYTICS_TTL)
        /\ call' = [call EXCEPT ![c].pc = "returned",
                                ![c].result = analytics,
                                ![c].io = @ \cup {<<"set", "analytics">>}]
  /\ UNCHANGED <<monitoredEmails, inv, mon, used, fetchVars, dedup, clearance, frontVars>>

----------------------------------------------------------------------------
(* monitorEmail and the monitoring loop *)

\* variant: an array with push in place of the Set
arrayPush(list, x) == Append(list, x)

\* Set.prototype.add on the insertion-ordered set
setAdd(list, x) ==
  IF \E i \in 1..Len(list) : list[i] = x THEN list ELSE Append(list, x)

\* monitorEmail: the synchronous add, then the SET is on its way (line 158)
MonitorEmail(c, email, chatId) ==
  /\ c \in Users
  /\ Free(c)
  /\ monitoredEmails' = setAdd(monitoredEmails, email)
  /\ call' = [call EXCEPT ![c] =
        [IdleCall EXCEPT !.op = "monitorEmail", !.arg = email,
                         !.result = chatId, !.pc = "awaitSet"]]
  /\ inv' = [inv EXCEPT ![c] = [k \in Checkers |-> IdleInv]]
  /\ UNCHANGED <<redis, mon, fetchVars, dedup, clearance, frontVars>>
  /\ used < MaxEvents
  /\ used' = used + 1

\* monitorEmail: set(`monitor:${email}`, chatId, 0) completes (lines 159-160)
MonitorEmailSet(c) ==
  /\ call[c].pc = "awaitSet"
  /\ call[c].op = "monitorEmail"
  /\ redis' = Put(redis, Key("monitor", call[c].arg), call[c].result, MONITOR_TTL)
  /\ call' = [call EXCEPT ![c].pc = "returned",
                          ![c].io = @ \cup {<<"set", "monitor">>}]
  /\ UNCHANGED <<monitoredEmails, inv, mon, used, fetchVars, dedup, clearance, frontVars>>

IdleMon ==
  [pc |-> "idle", i |-> 0, email |-> <<>>, chatId |-> 0,
   breaches |-> <<>>, previous |-> None, newBreaches |-> <<>>,
   snapshot |-> None, notified |-> <<>>]

\* the setInterval callback starts monitorEmails (lines 164-172); a cycle is
\* over well before the next tick, MONITOR_INTERVAL later
MonitorTick ==
  /\ mon.pc = "idle"
  /\ mon' = [IdleMon EXCEPT !.pc = "getChat", !.i = 1]
  /\ UNCHANGED <<redis, monitoredEmails, call, inv, fetchVars, dedup, clearance, frontVars>>
  /\ used < MaxEvents
  /\ used' = used + 1

\* variant: the iteration goes on to the next email without awaiting the
\* re-check of the one before (forEach with an async callback)
MonitorGetChatUnawaited ==
  LET i == IF mon.pc = "awaitCheck" THEN mon.i + 1 ELSE mon.i
  IN /\ mon.pc \in {"getChat", "stored", "awaitCheck"}
     /\ i >= 1
     /\ IF i > Len(monitoredEmails)
        THEN mon' = [mon EXCEPT !.pc = "idle", !.i = 0]
        ELSE LET email == monitoredEmails[i]
                 hasChat == Has(Key("monitor", email))
                 chatId == IF hasChat THEN Get(Key("monitor", email)) ELSE 0
             IN IF chatId = 0
                THEN mon' = [mon EXCEPT !.pc = "getChat", !.i = i + 1]
                ELSE mon' = [IdleMon EXCEPT
                        !.pc = "check", !.i = i, !.email = email, !.chatId = chatId,
                        !.snapshot = IF Has(Key("email", email))
                                     THEN Some(Get(Key("email", email))) ELSE None]
     /\ UNCHANGED <<redis, monitoredEmails, call, inv, used, fetchVars, dedup, clearance, frontVars>>

\* next email of the iteration and its chat id (lines 172-174); snapshot
\* records what email:{email} holds when the subscription is taken up
MonitorGetChat ==
  /\ mon.pc \in {"getChat", "stored"}
  /\ mon.i >= 1
  /\ IF mon.i > Len(monitoredEmails)
     THEN mon' = [mon EXCEPT !.pc = "idle", !.i = 0]
     ELSE LET email == monitoredEmails[mon.i]
              hasChat == Has(Key("monitor", email))
              chatId == IF hasChat THEN Get(Key("monitor", email)) ELSE 0
          IN IF chatId = 0
             THEN mon' = [mon EXCEPT !.pc = "getChat", !.i = @ + 1]
             ELSE mon' = [IdleMon EXCEPT
                     !.pc = "check", !.i = mon.i, !.email = email, !.chatId = chatId,
                     !.snapshot = IF Has(Key("email", email))
                                  THEN Some(Get(Key("email", email))) ELSE None]
  /\ UNCHANGED <<redis, monitoredEmails, call, inv, used, fetchVars, dedup, clearance, frontVars>>

\* const breaches = await this.checkEmailBreaches(email): the call (line 176)
MonitorCheck ==
  /\ mon.pc = "check"
  /\ BeginCheckEmailBreaches(Monitor, mon.email)
  /\ mon' = [mon EXCEPT !.pc = "awaitCheck"]
  /\ UNCHANGED <<redis, monitoredEmails, used, fetchVars, dedup, clearance, frontVars>>

\* variant: the previous snapshot is the one read before the re-check
MonitorDiffSnapshotFirst ==
  /\ mon.pc = "awaitCheck"
  /\ call[Monitor].pc \in {"returned", "thrown"}
  /\ IF call[Monitor].pc = "thrown"
     THEN mon' = [mon EXCEPT !.pc = "idle", !.i = 0]
     ELSE LET breaches == call[Monitor].result
              newBreaches == filterNew(breaches, mon.snapshot)
          IN mon' = [mon EXCEPT
                  !.breaches = breaches, !.previous = mon.snapshot,
                  !.newBreaches = newBreaches,
                  !.pc = IF Len(newBreaches) > 0 THEN "send" ELSE "store"]
  /\ UNCHANGED <<redis, monitoredEmails, call, inv, used, fetchVars, dedup, clearance, frontVars>>

\* the call returned: read the previous snapshot and diff (lines 176-188);
\* a rejected call rejects monitorEmails, which the interval callback logs
MonitorDiff ==
  /\ mon.pc = "awaitCheck"
  /\ call[Monitor].pc \in {"returned", "thrown"}
  /\ IF call[Monitor].pc = "thrown"
     THEN mon' = [mon EXCEPT !.pc = "idle", !.i = 0]
     ELSE LET breaches == call[Monitor].result
              cacheKey == Key("email", mon.email)
              previousBreaches == IF Has(cacheKey) THEN Some(Get(cacheKey)) ELSE None
              newBreaches == filterNew(breaches, previousBreaches)
          IN mon' = [mon EXCEPT
                  !.breaches = breaches, !.previous = previousBreaches,
                  !.newBreaches = newBreaches,
                  !.pc = IF Len(newBreaches) > 0 THEN "send" ELSE "store"]
  /\ UNCHANGED <<redis, monitoredEmails, call, inv, used, fetchVars, dedup, clearance, frontVars>>

\* variant: a send that fails is caught and the loop goes on to the next email
MonitorSendCaught(ok) ==
  /\ mon.pc = "send"
  /\ IF ok
     THEN mon' = [mon EXCEPT !.pc = "store",
                             !.notified = Append(@, mon.newBreaches)]
     ELSE mon' = [mon EXCEPT !.pc = "stored", !.i = @ + 1]
  /\ UNCHANGED <<redis, monitoredEmails, call, inv, used, fetchVars, dedup, clearance, frontVars>>

\* telegramBotService.sendMessage(chatId, message) (lines 188-197): the send
\* is delivered (notified records the breaches it lists), or throws and
\* rejects monitorEmails
MonitorSend(ok) ==
  /\ mon.pc = "send"
  /\ IF ok
     THEN mon' = [mon EXCEPT !.pc = "store",
                             !.notified = Append(@, mon.newBreaches)]
     ELSE mon' = [mon EXCEPT !.pc = "idle", !.i = 0]
  /\ UNCHANGED <<redis, monitoredEmails, call, inv, used, fetchVars, dedup, clearance, frontVars>>

\* variant: the snapshot is written only when there are new breaches
MonitorStoreIfNew ==
  /\ mon.pc = "store"
  /\ redis' = IF mon.newBreaches # <<>>
              THEN Put(redis, Key("email", mon.email), mon.breaches, SNAPSHOT_TTL)
              ELSE redis
  /\ mon' = [mon EXCEPT !.pc = "stored", !.i = @ + 1]
  /\ UNCHANGED <<monitoredEmails, call, inv, used, fetchVars, dedup, clearance, frontVars>>

\* set(cacheKey, breaches, 24 * 60 * 60) and on to the next email (line 199)
MonitorStore ==
  /\ mon.pc = "store"
  /\ redis' = Put(redis, Key("email", mon.email), mon.breaches, SNAPSHOT_TTL)
  /\ mon' = [mon EXCEPT !.pc = "stored", !.i = @ + 1]
  /\ UNCHANGED <<monitoredEmails, call, inv, used, fetchVars, dedup, clearance, frontVars>>

\* a key stored with EX ttl reaches its expiry
Expire(key) ==
  /\ key \in DOMAIN redis
  /\ redis[key].ttl > 0
  /\ redis' = Del(redis, {key})
  /\ UNCHANGED <<monitoredEmails, call, inv, mon, fetchVars, dedup, clearance, frontVars>>
  /\ used < MaxEvents
  /\ used' = used + 1

----------------------------------------------------------------------------
(* checkPassword *)

PasswordAbc == <<"a", "b", "c", "1", "2", "3", "!">>
PasswordA1 == <<"a", "1">>
PasswordInputs == {<<>>, PasswordAbc, PasswordA1}

HASH_PREFIX_LEN == 10

\* keccak512(password) in hex, shortened to 12 digits; the two passwords
\* differ in their digest and agree on its first HASH_PREFIX_LEN digits
keccak512(password) ==
  IF password = PasswordAbc
  THEN <<"0", "a", "1", "b", "2", "c", "3", "d", "4", "e", "f", "0">>
  ELSE IF password = PasswordA1
  THEN <<"0", "a", "1", "b", "2", "c", "3", "d", "4", "e", "9", "c">>
  ELSE <<"7", "7", "7", "7", "7", "7", "7", "7", "7", "7", "7", "7">>

\* the PasswordCheckResult LeakCheckApiService.checkPassword returns
leakCheckPasswordResult ==
  [found |-> FALSE, count |-> 0, digits |-> 0, alphabets |-> 0,
   specialChars |-> 0, length |-> 0]

\* results of scrapeJSON for /pass/anon/{prefix}: a throw, {Error: 'Not found'},
\* a body without SearchPassAnon, or SearchPassAnon {char, count}; char is given
\* by what /D:(\d+);A:(\d+);S:(\d+);L:(\d+)/ extracts from it (None: no match),
\* count by what parseInt(count, 10) gives (None: NaN); "D:4;A:4;S:4;L:7" is a
\* char the pattern accepts as it accepts any four numbers
XposedPasswordResults ==
  {[kind |-> "error", char |-> None, count |-> None],
   [kind |-> "notFound", char |-> None, count |-> None],
   [kind |-> "invalid", char |-> None, count |-> None],
   [kind |-> "found", char |-> Some(<<3, 3, 1, 7>>), count |-> Some(5)],
   [kind |-> "found", char |-> Some(<<4, 4, 4, 7>>), count |-> Some(2)],
   [kind |-> "found", char |-> None, count |-> None]}

\* finalResult of XposedOrNotApiService.checkPassword (lines 143-157)
xposedFoundResult(result) ==
  LET match == IF result.char[1] THEN result.char[2] ELSE <<0, 0, 0, 0>>
  IN [found |-> TRUE,
      count |-> IF result.count[1] THEN result.count[2] ELSE 0,
      digits |-> match[1], alphabets |-> match[2],
      specialChars |-> match[3], length |-> match[4]]

RECURSIVE accumulateFulfilled(_, _)
\* variant: the test of result.value.found is left out
accumulateFulfilled(results, finalResult) ==
  IF results = <<>> THEN finalResult
  ELSE accumulateFulfilled(Tail(results),
         IF Head(results).status = "fulfilled"
         THEN [finalResult EXCEPT !.found = TRUE,
                                  !.count = @ + Head(results).value.count]
         ELSE finalResult)

\* the accumulation of checkPassword's results.forEach (lines 92-108)
RECURSIVE accumulate(_, _)
accumulate(results, finalResult) ==
  IF results = <<>> THEN finalResult
  ELSE accumulate(Tail(results),
         IF Head(results).status = "fulfilled" /\ Head(results).value.found
         THEN [finalResult EXCEPT !.found = TRUE,
                                  !.count = @ + Head(results).value.count]
         ELSE finalResult)

\* variant: the test of !password is left out
passwordPathNoEmptyTest(password, cacheKey) ==
  IF Has(cacheKey) THEN "hit" ELSE "miss"

\* which path the head of checkPassword takes (lines 72-83)
passwordPath(password, cacheKey) ==
  IF password = <<>> THEN "empty"
  ELSE IF Has(cacheKey) THEN "hit"
  ELSE "miss"

\* checkPassword(password) up to the fan-out (lines 71-90)
CheckPassword(c, password) ==
  LET cacheKey == Key("password", keccak512(password))
      path == passwordPath(password, cacheKey)
  IN /\ c \in Users
     /\ Free(c)
     /\ call' = [call EXCEPT ![c] =
           CASE path = "empty" ->
                  [IdleCall EXCEPT !.op = "checkPassword", !.arg = password,
                                   !.pc = "returned",
                                   !.result = computePasswordStats(<<>>)]
             [] path = "hit" ->
                  [IdleCall EXCEPT !.op = "checkPassword", !.arg = password,
                                   !.pc = "returned", !.result = Get(cacheKey),
                                   !.io = {<<"get", "password">>}]
             [] OTHER ->
                  [IdleCall EXCEPT !.op = "checkPassword", !.arg = password,
                                   !.pc = "awaitCheckers",
                                   !.settled = [k \in Checkers |-> Pending],
                                   !.io = {<<"get", "password">>}
                                          \cup {<<"call", k>> : k \in Checkers}]]
     /\ inv' = [inv EXCEPT ![c] =
           IF path = "miss"
           THEN [k \in Checkers |-> StartedInv("checkPassword", password)]
           ELSE [k \in Checkers |-> IdleInv]]
     /\ UNCHANGED <<redis, monitoredEmails, mon, fetchVars, dedup, clearance, frontVars>>
     /\ used < MaxEvents
     /\ used' = used + 1

\* LeakCheckApiService.checkPassword: resolves at once (lines 70-80)
LeakCheckPassword(c) ==
  /\ inv[c][LeakCheck].pc = "get"
  /\ inv[c][LeakCheck].op = "checkPassword"
  /\ call' = settle(c, LeakCheck, Fulfilled(leakCheckPasswordResult))
  /\ inv' = [inv EXCEPT ![c][LeakCheck].pc = "done"]
  /\ UNCHANGED <<redis, monitoredEmails, mon, used, fetchVars, dedup, clearance, frontVars>>

\* variant: the whole digest is put in the URL
xposedPasswordUrlFullDigest(password) ==
  <<"passwords.xposedornot.com/api/v1/pass/anon/", keccak512(password)>>

\* hash.slice(0, 10) in `https://passwords.xposedornot.com/api/v1/pass/anon/${hashPrefix}`
xposedPasswordUrl(password) ==
  <<"passwords.xposedornot.com/api/v1/pass/anon/",
    SubSeq(keccak512(password), 1, HASH_PREFIX_LEN)>>

\* XposedOrNotApiService.checkPassword: cache lookup (lines 110-116)
XposedPasswordGet(c) ==
  LET cacheKey == Key("password", keccak512(inv[c][Xposed].arg))
  IN /\ inv[c][Xposed].pc = "get"
     /\ inv[c][Xposed].op = "checkPassword"
     /\ IF Has(cacheKey)
        THEN /\ call' = settle(c, Xposed, Fulfilled(Get(cacheKey)))
             /\ inv' = [inv EXCEPT ![c][Xposed].pc = "done"]
        ELSE /\ call' = call
             /\ inv' = [inv EXCEPT ![c][Xposed].pc = "remote",
                                   ![c][Xposed].request = xposedPasswordUrl(inv[c][Xposed].arg)]
     /\ UNCHANGED <<redis, monitoredEmails, mon, used, fetchVars, dedup, clearance, frontVars>>

\* XposedOrNotApiService.checkPassword: scrapeJSON settles (lines 118-166)
XposedPasswordScrape(c, result) ==
  LET password == inv[c][Xposed].arg
      cacheKey == Key("password", keccak512(password))
      value == IF result.kind = "found" THEN xposedFoundResult(result)
               ELSE computePasswordStats(password)
  IN /\ inv[c][Xposed].pc = "remote"
     /\ inv[c][Xposed].op = "checkPassword"
     /\ inv' = [inv EXCEPT ![c][Xposed].pc = "done"]
     /\ redis' = Put(redis, cacheKey, value, PASSWORD_TTL)
     /\ call' = settle(c, Xposed, Fulfilled(value))
     /\ UNCHANGED <<monitoredEmails, mon, used, fetchVars, dedup, clearance, frontVars>>

\* checkPassword after Promise.allSettled (lines 92-114)
FinishCheckPassword(c) ==
  /\ call[c].pc = "awaitCheckers"
  /\ call[c].op = "checkPassword"
  /\ \A k \in Checkers : call[c].settled[k].status # "pending"
  /\ LET finalResult == accumulate(resultsOf(c), computePasswordStats(call[c].arg))
     IN /\ redis' = Put(redis, Key("password", keccak512(call[c].arg)), finalResult,
                        PASSWORD_TTL)
        /\ call' = [call EXCEPT ![c].pc = "returned",
                                ![c].result = finalResult,
                                ![c].io = @ \cup {<<"set", "password">>}]
  /\ UNCHANGED <<monitoredEmails, inv, mon, used, fetchVars, dedup, clearance, frontVars>>

----------------------------------------------------------------------------
(* The fetch layer: PuppeteerService with its pool of pages.  A step is one  *)
(* turn of the event loop: the answer of the browser to the pending command  *)
(* of a fetch and what the fetch does until its next command.  scrapeJSON is *)
(* called in the turn of a Redis reply (xposed-or-not-api.service.ts:68, 113 *)
(* and 170 await the cache before it); the continuation of                   *)
(* `await this.addPageToPool()` runs in the turn of the browser's answer     *)
(* that let addPageToPool push its page.                                     *)

maxPages == 5

\* scrapeJSON(url, retries = 3): the parameter is not read, its one use
\* (getCfClearance(page, url, retries), line 716) is commented out
retries == 3

\* the fetches of a run: as many as empty the pool and MaxOverflow more.  The
\* first of them navigate to a source that does not answer, which keeps their
\* pages out of the pool until their navigations time out
Fetches == 1..(maxPages + MaxOverflow)
Unanswered == 1..(maxPages - 1)
Answered == Fetches \ Unanswered

Page(n) == <<"page", n>>
\* what Array.shift gives on an empty array
undefinedPage == <<"undefined", 0>>
NoPage == <<"none", 0>>

IdleFetch ==
  [pc |-> "idle", page |-> NoPage, gotos |-> 0, status |-> 0, body |-> "none",
   responseData |-> FALSE, error |-> "none"]

\* answers of page.goto: a rejection (timeout, network error) or a response
\* with a status and a body that is JSON or is not
HttpStatuses == {200, 403, 404, 429}
NoAnswer == [kind |-> "throw", status |-> 0, body |-> "none"]
GotoAnswers ==
  {NoAnswer}
  \cup {[kind |-> "response", status |-> st, body |-> b] :
          st \in HttpStatuses, b \in {"json", "text"}}
\* variant: the pool is never taken to be empty
poolNeverEmpty(pool) == FALSE

\* getPageFromPool: this.pagePool.length === 0
poolEmpty(pool) == Len(pool) = 0

\* variant: the first page is read and stays in the pool
peek(pool) == [page |-> IF pool = <<>> THEN undefinedPage ELSE Head(pool), rest |-> pool]

\* this.pagePool.shift()
shift(pool) ==
  IF pool = <<>> THEN [page |-> undefinedPage, rest |-> <<>>]
  ELSE [page |-> Head(pool), rest |-> Tail(pool)]

\* releasePage: this.pagePool.push(page)
releasePage(pool, page) == Append(pool, page)

\* variant: the page goes back only when the fetch returns
releaseOnReturn(pool, page, pc) == IF pc = "returned" THEN releasePage(pool, page) ELSE pool

\* the finally of scrapeJSON
finally(pool, page, pc) == releasePage(pool, page)

\* variant: only the block signal is tested
statusErrorBlockOnly(status) ==
  IF status = 403 THEN "CLOUDFLARE_ERROR" ELSE "none"

\* the tests on response.status() after page.goto (lines 747-754)
statusError(status) ==
  CASE status = 403 -> "CLOUDFLARE_ERROR"
    [] status = 429 -> "RATE_LIMIT_ERROR"
    [] OTHER -> "none"

\* scrapeJSON leaves through its finally: the page goes back to the pool
exit(f, pool, pc, error) ==
  /\ pagePool' = finally(pool, fetch[f].page, pc)
  /\ fetch' = [fetch EXCEPT ![f].pc = pc, ![f].error = error, ![f].page = NoPage,
                            ![f].body = "none"]

\* return this.pagePool.shift()!, and scrapeJSON up to its first command:
\* page.setCookie on an absent page is a TypeError inside the try
checkOut(f, pool) ==
  LET got == shift(pool)
  IN IF got.page = undefinedPage
     THEN /\ pagePool' = finally(got.rest, got.page, "thrown")
          /\ fetch' = [fetch EXCEPT ![f].pc = "thrown", ![f].error = "TypeError"]
     ELSE /\ pagePool' = got.rest
          /\ fetch' = [fetch EXCEPT ![f].pc = "setCookie", ![f].page = got.page]

\* scrapeJSON(url) is called: getPageFromPool (lines 599-604, 713)
ScrapeJSON(f) ==
  /\ fetch[f].pc = "idle"
  /\ f > 1 => fetch[f - 1].pc # "idle"
  /\ IF poolEmpty(pagePool)
     THEN /\ fetch' = [fetch EXCEPT ![f].pc = "addPageToPool"]
          /\ UNCHANGED pagePool
     ELSE checkOut(f, pagePool)
  /\ UNCHANGED <<redis, monitoredEmails, call, inv, mon, used, pages, dedup, clearance, frontVars>>

\* addPageToPool settles (lines 579-593): browser.newPage and the settings of
\* the fresh page, then the push, and getPageFromPool goes on with its shift
\* in the same turn.  pages counts the pages pushed: when newPage or one of
\* the settings rejects nothing is pushed and the fetch fails before its try
AddPageToPool(f, ok) ==
  /\ fetch[f].pc = "addPageToPool"
  /\ IF ok
     THEN /\ pages' = pages + 1
          /\ checkOut(f, Append(pagePool, Page(pages + 1)))
     ELSE /\ fetch' = [fetch EXCEPT ![f].pc = "thrown", ![f].error = "Error"]
          /\ UNCHANGED <<pagePool, pages>>
  /\ UNCHANGED <<redis, monitoredEmails, call, inv, mon, used, dedup, clearance, frontVars>>

\* page.setCookie settles (lines 717-721); page.on and page.goto follow
SetCookie(f, ok) ==
  /\ fetch[f].pc = "setCookie"
  /\ IF ok
     THEN /\ fetch' = [fetch EXCEPT ![f].pc = "goto"]
          /\ UNCHANGED pagePool
     ELSE exit(f, pagePool, "thrown", "Error")
  /\ UNCHANGED <<redis, monitoredEmails, call, inv, mon, used, pages, dedup, clearance, frontVars>>

\* page.goto settles (lines 742-754)
Goto(f, answer) ==
  /\ fetch[f].pc = "goto"
  /\ LET navigated == [fetch EXCEPT ![f].gotos = @ + 1, ![f].status = answer.status]
     IN CASE answer.kind = "throw" ->
               /\ pagePool' = finally(pagePool, fetch[f].page, "thrown")
               /\ fetch' = [navigated EXCEPT ![f].pc = "thrown", ![f].error = "Error",
                                             ![f].page = NoPage]
          [] answer.kind = "response" /\ statusError(answer.status) # "none" ->
               /\ pagePool' = finally(pagePool, fetch[f].page, "thrown")
               /\ fetch' = [navigated EXCEPT ![f].pc = "thrown",
                                             ![f].error = statusError(answer.status),
                                             ![f].page = NoPage]
          [] OTHER ->
               /\ fetch' = [navigated EXCEPT ![f].pc = "waitForFunction",
                                             ![f].body = answer.body]
               /\ UNCHANGED pagePool
  /\ UNCHANGED <<redis, monitoredEmails, call, inv, mon, used, pages, dedup, clearance, frontVars>>

\* page.goto gives up on a source that does not answer ({ timeout: 60000 },
\* line 744): long after the fetches that were answered have ended, and the
\* navigation that started first gives up first
NavigationTimeout(f) ==
  /\ \A g \in Answered : fetch[g].pc \in {"returned", "thrown"}
  /\ f > 1 => fetch[f - 1].pc = "thrown"
  /\ Goto(f, NoAnswer)

\* page.waitForFunction settles (lines 756-766); heard: the response listener
\* has parsed the body by then (lines 724-739)
WaitForFunction(f, ok, heard) ==
  /\ fetch[f].pc = "waitForFunction"
  /\ LET responseData == heard /\ fetch[f].body = "json"
     IN CASE ~ok -> exit(f, pagePool, "thrown", "TimeoutError")
          [] ok /\ responseData ->
               /\ pagePool' = finally(pagePool, fetch[f].page, "returned")
               /\ fetch' = [fetch EXCEPT ![f].pc = "returned", ![f].responseData = TRUE,
                                         ![f].page = NoPage, ![f].body = "none"]
          [] OTHER ->
               /\ fetch' = [fetch EXCEPT ![f].pc = "evaluate"]
               /\ UNCHANGED pagePool
  /\ UNCHANGED <<redis, monitoredEmails, call, inv, mon, used, pages, dedup, clearance, frontVars>>

\* page.evaluate(JSON.parse(document.body.innerText)) settles (lines 758-774)
Evaluate(f) ==
  /\ fetch[f].pc = "evaluate"
  /\ IF fetch[f].body = "json"
     THEN /\ pagePool' = finally(pagePool, fetch[f].page, "returned")
          /\ fetch' = [fetch EXCEPT ![f].pc = "returned", ![f].responseData = TRUE,
                                    ![f].page = NoPage, ![f].body = "none"]
     ELSE exit(f, pagePool, "thrown", "SCRAPE_ERROR")
  /\ UNCHANGED <<redis, monitoredEmails, call, inv, mon, used, pages, dedup, clearance, frontVars>>

----------------------------------------------------------------------------
(* The clearance protocol: PuppeteerService.getCfClearance(page, url,        *)
(* retries), lines 610-710 (the same text as lines 125-225).  A step is the  *)
(* answer of the browser to the pending command of the protocol, or the end  *)
(* of the cooldown timer.                                                    *)

IdleClearance ==
  [pc |-> "idle", retries |-> 0, attempt |-> 0, gotos |-> 0, reloads |-> 0,
   cooldowns |-> 0, status |-> 0, warned |-> FALSE, error |-> "none", cause |-> "none"]

\* the answers of page.goto, and the rejection of a command that gives a
\* string otherwise
ClearanceStatuses == {200, 403}
ClearanceAnswers ==
  {NoAnswer} \cup {[kind |-> "response", status |-> st, body |-> "none"] :
                     st \in ClearanceStatuses}
Rejects == "rejects"

\* the messages of the two throws that leave getCfClearance (lines 703, 709)
AfterRetriesAttempts == "Failed to obtain cf_clearance after ${retries} attempts"
AfterAllAttempts == "Failed to obtain cf_clearance after all attempts"

\* the messages of the throws inside an attempt (lines 630, 676) and of a
\* command of the browser that rejects
AccessDenied == "Access denied by Cloudflare after all attempts"
NoTurnstileToken == "Failed to obtain Cloudflare Turnstile token"

\* variant: one more attempt is made before the throw leaves the protocol
catchOneMore(cl, message) ==
  IF cl.attempt > cl.retries
  THEN [cl EXCEPT !.pc = "thrown", !.error = AfterRetriesAttempts, !.cause = message]
  ELSE [cl EXCEPT !.attempt = @ + 1, !.pc = "goto", !.warned = FALSE]

\* the catch of an attempt (lines 697-706): the last attempt throws, any
\* other goes on with the next turn of the for loop
catch(cl, message) ==
  IF cl.attempt = cl.retries
  THEN [cl EXCEPT !.pc = "thrown", !.error = AfterRetriesAttempts, !.cause = message]
  ELSE [cl EXCEPT !.attempt = @ + 1, !.pc = "goto", !.warned = FALSE]

\* getCfClearance(page, url, retries) is called: the for loop starts
\* (line 615), and with no turn to take the final throw is reached (line 709)
GetCfClearance(r) ==
  /\ clearance.pc = "idle"
  /\ clearance' =
       IF 1 <= r
       THEN [IdleClearance EXCEPT !.retries = r, !.attempt = 1, !.pc = "goto"]
       ELSE [IdleClearance EXCEPT !.retries = r, !.attempt = 1, !.pc = "thrown",
                                  !.error = AfterAllAttempts]
  /\ UNCHANGED <<redis, monitoredEmails, call, inv, mon, used, fetchVars, dedup, frontVars>>

\* page.goto settles (lines 622-632): a 403 on the last attempt throws, on
\* any other attempt the attempt goes on
ClearanceGoto(answer) ==
  /\ clearance.pc = "goto"
  /\ LET navigated == [clearance EXCEPT !.gotos = @ + 1, !.status = answer.status]
     IN clearance' =
          IF answer.kind = "throw" THEN catch(navigated, Rejects)
          ELSE IF answer.status = 403 /\ navigated.attempt = navigated.retries
          THEN catch(navigated, AccessDenied)
          ELSE [navigated EXCEPT !.pc = "banner"]
  /\ UNCHANGED <<redis, monitoredEmails, call, inv, mon, used, fetchVars, dedup, frontVars>>

\* variant: the timeout of the wait for the banner is not caught
bannerFatal(cl, gone) ==
  IF gone THEN [cl EXCEPT !.pc = "detect"] ELSE catch(cl, Rejects)

\* the wait for 'Just a moment' to leave the title with its own .catch
\* (lines 635-648): a timeout is logged and the attempt goes on
banner(cl, gone) == [cl EXCEPT !.pc = "detect", !.warned = ~gone]

ClearanceBanner(gone) ==
  /\ clearance.pc = "banner"
  /\ clearance' = banner(clearance, gone)
  /\ UNCHANGED <<redis, monitoredEmails, call, inv, mon, used, fetchVars, dedup, frontVars>>

\* page.evaluate for hasTurnstile settles (lines 651-655)
ClearanceDetect(hasTurnstile) ==
  /\ clearance.pc = "detect"
  /\ clearance' =
       IF hasTurnstile = Rejects THEN catch(clearance, Rejects)
       ELSE IF hasTurnstile = "true" THEN [clearance EXCEPT !.pc = "tokenWait"]
       ELSE [clearance EXCEPT !.pc = "cookies"]
  /\ UNCHANGED <<redis, monitoredEmails, call, inv, mon, used, fetchVars, dedup, frontVars>>

\* the 15 s wait for the value of the Turnstile input settles (lines 659-667):
\* it has no .catch of its own
ClearanceTokenWait(filled) ==
  /\ clearance.pc = "tokenWait"
  /\ clearance' = IF filled THEN [clearance EXCEPT !.pc = "tokenRead"] ELSE catch(clearance, Rejects)
  /\ UNCHANGED <<redis, monitoredEmails, call, inv, mon, used, fetchVars, dedup, frontVars>>

\* the token is read and tested (lines 669-679)
token(cl, turnstileToken) ==
  CASE turnstileToken = Rejects -> catch(cl, Rejects)
    [] turnstileToken = "" -> catch(cl, NoTurnstileToken)
    [] OTHER -> [cl EXCEPT !.pc = "cookies"]

ClearanceTokenRead(turnstileToken) ==
  /\ clearance.pc = "tokenRead"
  /\ clearance' = token(clearance, turnstileToken)
  /\ UNCHANGED <<redis, monitoredEmails, call, inv, mon, used, fetchVars, dedup, frontVars>>

\* the cookie is absent (lines 693-696): reload when attempts remain,
\* otherwise the for loop ends and the final throw is reached (line 709)
absent(cl) ==
  IF cl.attempt < cl.retries THEN [cl EXCEPT !.pc = "reload"]
  ELSE [cl EXCEPT !.pc = "thrown", !.error = AfterAllAttempts]

\* page.cookies settles (lines 682-696)
ClearanceCookies(cookie) ==
  /\ clearance.pc = "cookies"
  /\ clearance' =
       CASE cookie = Rejects -> catch(clearance, Rejects)
         [] cookie = "cf_clearance" -> [clearance EXCEPT !.pc = "returned"]
         [] OTHER -> absent(clearance)
  /\ UNCHANGED <<redis, monitoredEmails, call, inv, mon, used, fetchVars, dedup, frontVars>>

\* page.reload settles (line 695): a rejection goes to the catch
ClearanceReload(ok) ==
  /\ clearance.pc = "reload"
  /\ LET reloaded == [clearance EXCEPT !.reloads = @ + 1]
     IN clearance' = IF ok THEN [reloaded EXCEPT !.pc = "cooldown"] ELSE catch(reloaded, Rejects)
  /\ UNCHANGED <<redis, monitoredEmails, call, inv, mon, used, fetchVars, dedup, frontVars>>

\* the 5 s timer ends (line 696) and the next turn of the for loop starts
ClearanceCooldown ==
  /\ clearance.pc = "cooldown"
  /\ clearance' = [clearance EXCEPT !.cooldowns = @ + 1, !.attempt = @ + 1, !.pc = "goto",
                                    !.warned = FALSE]
  /\ UNCHANGED <<redis, monitoredEmails, call, inv, mon, used, fetchVars, dedup, frontVars>>

----------------------------------------------------------------------------
(* removeDuplicates on its own *)

\* breach lists as the checkers hand them over: names that differ in case only,
\* names that do not, a date on some
DedupNames == {NameAd, NameAD, NameX, Namex, NameB}
DedupBreaches ==
  {Breach(n, Undefined, Undefined) : n \in DedupNames}
  \cup {Breach(NameAD, Undefined, "2013-10")}
BreachLists == UNION {[1..n -> DedupBreaches] : n \in 0..MaxLen}

\* removeDuplicates(breaches) is applied to the list, then to its own result
RemoveDuplicates ==
  /\ dedup.times < MaxApplications
  /\ dedup' = [dedup EXCEPT !.output = removeDuplicates(dedup.output), !.times = @ + 1]
  /\ UNCHANGED <<redis, monitoredEmails, call, inv, mon, used, fetchVars, clearance, frontVars>>

----------------------------------------------------------------------------
(* Redis commands that fail *)

\* the cache lookup at the head of checkEmailBreaches (line 38) or getAnalytics
\* (line 123) rejects: RedisCacheService.get has no catch and neither has the
\* caller, the operation rejects with the error of the client
CacheGetFails(c, op, email) ==
  /\ c \in Users
  /\ Free(c)
  /\ isValidEmail(email)
  /\ call' = [call EXCEPT ![c] =
        [IdleCall EXCEPT !.op = op, !.arg = email, !.pc = "thrown",
                         !.error = "REDIS_ERROR",
                         !.io = {<<"getFailed", IF op = "getAnalytics" THEN "analytics"
                                                ELSE "email">>}]]
  /\ inv' = [inv EXCEPT ![c] = [k \in Checkers |-> IdleInv]]
  /\ UNCHANGED <<redis, monitoredEmails, mon, fetchVars, dedup, clearance, frontVars>>
  /\ used < MaxEvents
  /\ used' = used + 1

\* the write at the end of checkEmailBreaches (line 66) or getAnalytics
\* (line 152) rejects: the result merged from the checkers is not returned
CacheSetFails(c) ==
  /\ call[c].pc = "awaitCheckers"
  /\ call[c].op \in {"checkEmailBreaches", "getAnalytics"}
  /\ \A k \in Checkers : call[c].settled[k].status # "pending"
  /\ call' = [call EXCEPT ![c].pc = "thrown",
                          ![c].error = "REDIS_ERROR",
                          ![c].io = @ \cup {<<"setFailed", IF call[c].op = "getAnalytics"
                                                           THEN "analytics" ELSE "email">>}]
  /\ UNCHANGED <<redis, monitoredEmails, inv, mon, used, fetchVars, dedup, clearance, frontVars>>

----------------------------------------------------------------------------
(* The front-end: TelegramBotUpdate and TelegramBotService *)

ADMIN_IDS == {855779091}
\* ctx.from is missing: userId is undefined, and !userId holds of it as of 0
NoSender == 0
Senders == ADMIN_IDS \cup ChatIds \cup {NoSender}

\* `${this.STATS_KEY}:${metric}`, STATS_KEY = 'bot:stats'
StatsKey(metric) == Key("bot:stats", metric)
\* the metrics in the order in which getStats reads them
Metrics == <<"email_checks", "password_checks", "analytics_requests">>

\* text is the input of the operation the handler has called, reads are the
\* keys the handler has asked Redis for, found the answer of KEYS, stats
\* the counters getStats has read so far
IdleHandler ==
  [pc |-> "idle", op |-> "none", text |-> <<>>, reads |-> {}, found |-> {},
   stats |-> <<>>, reply |-> "none"]

\* the handler for this sender is at no await that a later step resumes
Settled(from) == handler[from].pc \in {"idle", "replied"}

\* variant: the commands of the administrators are open to every sender
gateOpen(from, command) == command

\* the head of clearCache / clearEmailCache / getStats of the front-end:
\* where the handler goes for this sender
gate(from, command) ==
  IF from = NoSender THEN "unknownUser"
  ELSE IF from \notin ADMIN_IDS THEN "adminsOnly"
  ELSE command

\* /clearcache, /clearemailcache or /stats arrives (lines 294-349)
AdminCommand(from, command) ==
  /\ Settled(from)
  /\ handler' = [handler EXCEPT ![from] =
        IF gate(from, command) = command
        THEN [IdleHandler EXCEPT !.op = command, !.pc = command]
        ELSE [IdleHandler EXCEPT !.op = command, !.pc = "replied",
                                 !.reply = gate(from, command)]]
  /\ UNCHANGED <<redis, monitoredEmails, call, inv, mon, fetchVars, dedup, clearance,
                 userStates>>
  /\ used < MaxEvents
  /\ used' = used + 1

\* botService.clearCache: clearAll() is FLUSHDB
ClearAll(from) ==
  /\ handler[from].pc = "clearcache"
  /\ redis' = <<>>
  /\ handler' = [handler EXCEPT ![from].pc = "replied", ![from].reply = "cleared"]
  /\ UNCHANGED <<monitoredEmails, call, inv, mon, used, fetchVars, dedup, clearance,
                 userStates>>

\* variant: the pattern is *
keysOfAll(store, prefix) == DOMAIN store

\* KEYS pattern for a pattern `${prefix}:*`: the keys that begin with the
\* prefix and the colon
keys(store, prefix) == {key \in DOMAIN store : key[1] = prefix}

\* botService.clearEmailCache: clearByPattern('email:*') up to the answer of
\* KEYS (lines 112-118 of the cache service)
ClearByPatternKeys(from) ==
  /\ handler[from].pc = "clearemailcache"
  /\ LET found == keys(redis, "email")
     IN handler' = [handler EXCEPT
          ![from].found = found,
          ![from].pc = IF found = {} THEN "replied" ELSE "del",
          ![from].reply = IF found = {} THEN "cleared" ELSE "none"]
  /\ UNCHANGED <<redis, monitoredEmails, call, inv, mon, used, fetchVars, dedup, clearance,
                 userStates>>

\* clearByPattern: DEL of the keys that KEYS gave (line 119)
ClearByPatternDel(from) ==
  /\ handler[from].pc = "del"
  /\ redis' = Del(redis, handler[from].found)
  /\ handler' = [handler EXCEPT ![from].pc = "replied", ![from].reply = "cleared"]
  /\ UNCHANGED <<monitoredEmails, call, inv, mon, used, fetchVars, dedup, clearance,
                 userStates>>

\* botService.getStats: the next of its three get(), (await get(key)) || 0
GetStat(from) ==
  LET key == StatsKey(Metrics[Len(handler[from].stats) + 1])
      value == IF Has(key) THEN Get(key) ELSE 0
      last == Len(handler[from].stats) + 1 = Len(Metrics)
  IN /\ handler[from].pc = "stats"
     /\ handler' = [handler EXCEPT
          ![from].reads = @ \cup {key},
          ![from].stats = Append(@, value),
          ![from].pc = IF last THEN "replied" ELSE "stats",
          ![from].reply = IF last THEN "stats" ELSE "none"]
     /\ UNCHANGED <<redis, monitoredEmails, call, inv, mon, used, fetchVars, dedup,
                    clearance, userStates>>

----------------------------------------------------------------------------
(* The dialogue of the front-end: TelegramBotUpdate.userStates *)

MAX_ATTEMPTS == 3

AWAITING_PASSWORD == "awaiting_password"
AWAITING_EMAIL == "awaiting_email"
AWAITING_MONITOR_EMAIL == "awaiting_monitor_email"

\* the commands and the buttons that enter a waiting state (lines 65-148)
WaitingStates ==
  [monitor |-> AWAITING_MONITOR_EMAIL, check |-> AWAITING_EMAIL,
   password |-> AWAITING_PASSWORD, check_password |-> AWAITING_PASSWORD,
   check_email |-> AWAITING_EMAIL]

\* the operation a text asks for in a waiting state
Operations ==
  [awaiting_password |-> "checkPassword", awaiting_email |-> "checkEmail",
   awaiting_monitor_email |-> "monitorEmail"]

\* the texts of the messages: message.text before trim()
Texts ==
  ValidEmails \cup {<<" ">>, <<"n", "o", "t">>, <<" ", "a", "@", "b", ".", "c", " ">>}

RECURSIVE trimStart(_)
trimStart(s) ==
  IF s = <<>> THEN <<>>
  ELSE IF Head(s) = " " THEN trimStart(Tail(s)) ELSE s

RECURSIVE trimEnd(_)
trimEnd(s) ==
  IF s = <<>> THEN <<>>
  ELSE IF s[Len(s)] = " " THEN trimEnd(SubSeq(s, 1, Len(s) - 1)) ELSE s

\* String.prototype.trim on the texts
trim(s) == trimEnd(trimStart(s))

\* emailRegex.test(text): the regular expression of isValidEmail
emailRegexTest(text) == isValidEmail(text)

\* userStates.delete(userId)
deleteState(states, userId) == [u \in DOMAIN states \ {userId} |-> states[u]]
\* userStates.set(userId, userData)
setState(states, userId, userData) ==
  [u \in DOMAIN states \cup {userId} |-> IF u = userId THEN userData ELSE states[u]]

\* a handler that has nothing to wait for but its reply: handler keeps it
\* unless a handler of this sender is waiting for its operation
replied(from, op, reply) ==
  IF Settled(from)
  THEN [handler EXCEPT ![from] =
          [IdleHandler EXCEPT !.pc = "replied", !.op = op, !.reply = reply]]
  ELSE handler

\* /start (lines 44-63)
Start(from) ==
  /\ userStates' = IF from = NoSender THEN userStates ELSE deleteState(userStates, from)
  /\ handler' = replied(from, "start", IF from = NoSender THEN "unknownUser" ELSE "welcome")
  /\ UNCHANGED <<redis, monitoredEmails, call, inv, mon, fetchVars, dedup, clearance>>
  /\ used < MaxEvents
  /\ used' = used + 1

\* /monitor, /check, /password and the buttons check_password, check_email
\* (lines 65-148)
Enter(from, entry) ==
  /\ userStates' =
       IF from = NoSender THEN userStates
       ELSE setState(userStates, from,
                     [state |-> WaitingStates[entry], attempts |-> 0])
  /\ handler' = replied(from, entry, IF from = NoSender THEN "unknownUser" ELSE "prompt")
  /\ UNCHANGED <<redis, monitoredEmails, call, inv, mon, fetchVars, dedup, clearance>>
  /\ used < MaxEvents
  /\ used' = used + 1

\* which branch of onText a text takes (lines 152-192, 248-250)
textBranch(from, text) ==
  IF from = NoSender THEN "unknownUser"
  ELSE IF text = <<>> THEN "empty"
  ELSE IF from \notin DOMAIN userStates THEN "choose"
  ELSE IF userStates[from].state = AWAITING_PASSWORD THEN "operation"
  ELSE IF ~emailRegexTest(text) THEN "malformed"
  ELSE "operation"

\* variant: the state goes when the attempts are above MAX_ATTEMPTS
exhaustedAbove(attempts) == attempts > MAX_ATTEMPTS

\* userData.attempts >= this.MAX_ATTEMPTS
exhausted(attempts) == attempts >= MAX_ATTEMPTS

\* a text message arrives: onText up to its first await (lines 150-218, 248-278)
OnText(from, message) ==
  LET text == trim(message)
      branch == textBranch(from, text)
  IN /\ branch = "operation" => Settled(from)
     /\ CASE branch = "malformed" ->
               LET userData == [userStates[from] EXCEPT !.attempts = @ + 1]
               IN /\ userStates' =
                       IF exhausted(userData.attempts)
                       THEN deleteState(setState(userStates, from, userData), from)
                       ELSE setState(userStates, from, userData)
                  /\ handler' = replied(from, "onText",
                                        IF exhausted(userData.attempts)
                                        THEN "tooMany" ELSE "malformed")
          [] branch = "operation" ->
               LET op == Operations[userStates[from].state]
               IN /\ userStates' = userStates
                  /\ handler' = [handler EXCEPT ![from] =
                       [IdleHandler EXCEPT
                          !.op = op, !.text = text,
                          !.pc = IF op = "monitorEmail" THEN "operation"
                                 ELSE "incrementStat"]]
          [] OTHER ->
               /\ userStates' = userStates
               /\ handler' = replied(from, "onText", branch)
     /\ UNCHANGED <<redis, monitoredEmails, call, inv, mon, fetchVars, dedup, clearance>>
     /\ used < MaxEvents
     /\ used' = used + 1

\* INCR key
Incr(store, key) ==
  [k \in DOMAIN store \cup {key} |->
     IF k # key THEN store[k]
     ELSE IF key \in DOMAIN store
          THEN [store[key] EXCEPT !.val = JSONstringify(JSONparse(@) + 1)]
          ELSE [val |-> JSONstringify(1), ttl |-> 0]]

\* botService.checkEmail / checkPassword: incrementStat (lines 55, 135, 294-303)
IncrementStat(from) ==
  /\ handler[from].pc = "incrementStat"
  /\ redis' = Incr(redis, StatsKey(IF handler[from].op = "checkEmail"
                                   THEN Metrics[1] ELSE Metrics[2]))
  /\ handler' = [handler EXCEPT ![from].pc = "operation"]
  /\ UNCHANGED <<monitoredEmails, call, inv, mon, used, fetchVars, dedup, clearance,
                 userStates>>

\* the operation the handler awaits, with its progress messages, returns or
\* throws (lines 187, 218, 278); a throw goes to the catch of onText, which
\* leaves userStates alone (lines 282-291)
OperationSettles(from, ok) ==
  /\ handler[from].pc = "operation"
  /\ handler' = [handler EXCEPT
        ![from].pc = IF ok THEN "reply" ELSE "replied",
        ![from].reply = IF ok THEN "none" ELSE "error"]
  /\ userStates' = userStates
  /\ UNCHANGED <<redis, monitoredEmails, call, inv, mon, used, fetchVars, dedup, clearance>>

\* ctx.reply with the result resolves and the state is deleted, or rejects
\* and the catch is entered (lines 188-189, 222-247, 279-280)
Reply(from, ok) ==
  /\ handler[from].pc = "reply"
  /\ handler' = [handler EXCEPT
        ![from].pc = "replied",
        ![from].reply = IF ok THEN "result" ELSE "error"]
  /\ userStates' = IF ok THEN deleteState(userStates, from) ELSE userStates
  /\ UNCHANGED <<redis, monitoredEmails, call, inv, mon, used, fetchVars, dedup, clearance>>

\* the dialogue of every sender: commands and buttons arrive while an
\* operation runs, too
DialogNext ==
  \/ \E from \in Senders : Start(from)
  \/ \E from \in Senders, entry \in DOMAIN WaitingStates : Enter(from, entry)
  \/ \E from \in Senders, message \in Texts : OnText(from, message)
  \/ \E from \in Senders : IncrementStat(from)
  \/ \E from \in Senders, ok \in BOOLEAN : OperationSettles(from, ok)
  \/ \E from \in Senders, ok \in BOOLEAN : Reply(from, ok)

----------------------------------------------------------------------------
(* The system *)

NoDedup == [input |-> <<>>, output |-> <<>>, times |-> 0]

Init ==
  /\ redis = <<>>
  /\ monitoredEmails = <<>>
  /\ call = [c \in Callers |-> IdleCall]
  /\ inv = [c \in Callers |-> [k \in Checkers |-> IdleInv]]
  /\ mon = IdleMon
  /\ used = 0
  /\ pagePool = [i \in 1..maxPages |-> Page(i)]
  /\ pages = maxPages
  /\ fetch = [f \in Fetches |-> IdleFetch]
  /\ dedup = NoDedup
  /\ clearance = IdleClearance
  /\ userStates = <<>>
  /\ handler = [from \in Senders |-> IdleHandler]

AllKeys ==
  {Key(ns, e) : ns \in {"email", "leakcheck", "xposed", "analytics",
                        "xposed_analytics", "monitor"}, e \in EmailInputs}
  \cup {Key("password", keccak512(p)) : p \in PasswordInputs}

\* steps of the checker invocations and of the calls waiting for them
CheckerNext ==
  \/ \E c \in Callers : LeakCheckGet(c)
  \/ \E c \in Callers, response \in LeakCheckResponses : LeakCheckHttp(c, response)
  \/ \E c \in Callers : XposedGet(c)
  \/ \E c \in Callers, result \in XposedCheckResults : XposedScrape(c, result)
  \/ \E c \in Callers : XposedAnalyticsGet(c)
  \/ \E c \in Callers, result \in XposedAnalyticsResults : XposedAnalyticsScrape(c, result)
  \/ \E c \in Callers, k \in Checkers : CheckerTimeout(c, k)
  \/ \E c \in Callers : FinishCheckEmailBreaches(c)
  \/ \E c \in Callers : FinishGetAnalytics(c)

\* steps of a password check
PasswordNext ==
  \/ \E c \in Users, password \in PasswordInputs : CheckPassword(c, password)
  \/ \E c \in Users : LeakCheckPassword(c)
  \/ \E c \in Users : XposedPasswordGet(c)
  \/ \E c \in Users, result \in XposedPasswordResults : XposedPasswordScrape(c, result)
  \/ \E c \in Users : CheckerTimeout(c, checkers[2])
  \/ \E c \in Users : FinishCheckPassword(c)
  \/ \E key \in AllKeys : Expire(key)

PasswordSpec == Init /\ [][PasswordNext]_vars

\* subscriptions and the monitoring loop
MonitorNext ==
  \/ \E c \in Users, email \in ValidEmails, chatId \in ChatIds : MonitorEmail(c, email, chatId)
  \/ \E c \in Users : MonitorEmailSet(c)
  \/ MonitorTick
  \/ MonitorGetChat
  \/ MonitorCheck
  \/ MonitorDiff
  \/ \E ok \in BOOLEAN : MonitorSend(ok)
  \/ MonitorStore

\* the interactive operations, called with any string
Next ==
  \/ \E c \in Users, email \in EmailInputs : CheckEmailBreaches(c, email)
  \/ \E c \in Users, email \in EmailInputs : GetAnalytics(c, email)
  \/ CheckerNext
  \/ \E key \in AllKeys : Expire(key)

Spec == Init /\ [][Next]_vars

\* the interactive operations with a Redis that may fail a command
FaultNext ==
  \/ Next
  \/ \E c \in Users, op \in {"checkEmailBreaches", "getAnalytics"}, email \in ValidEmails :
       CacheGetFails(c, op, email)
  \/ \E c \in Users : CacheSetFails(c)

FaultSpec == Init /\ [][FaultNext]_vars

\* removeDuplicates given any breach list
DedupInit ==
  /\ redis = <<>>
  /\ monitoredEmails = <<>>
  /\ call = [c \in Callers |-> IdleCall]
  /\ inv = [c \in Callers |-> [k \in Checkers |-> IdleInv]]
  /\ mon = IdleMon
  /\ used = 0
  /\ pagePool = [i \in 1..maxPages |-> Page(i)]
  /\ pages = maxPages
  /\ fetch = [f \in Fetches |-> IdleFetch]
  /\ \E list \in BreachLists : dedup = [input |-> list, output |-> list, times |-> 0]
  /\ clearance = IdleClearance
  /\ userStates = <<>>
  /\ handler = [from \in Senders |-> IdleHandler]

DedupSpec == DedupInit /\ [][RemoveDuplicates]_vars

\* more fetches than the pool has pages; the source answers the later ones
\* in every way
FetchNext ==
  \/ \E f \in Fetches : ScrapeJSON(f)
  \/ \E f \in Fetches, ok \in BOOLEAN : AddPageToPool(f, ok)
  \/ \E f \in Unanswered : SetCookie(f, TRUE)
  \/ \E f \in Unanswered : NavigationTimeout(f)
  \/ \E f \in Answered, ok \in BOOLEAN : SetCookie(f, ok)
  \/ \E f \in Answered, answer \in GotoAnswers : Goto(f, answer)
  \/ \E f \in Answered, ok \in BOOLEAN, heard \in BOOLEAN : WaitForFunction(f, ok, heard)
  \/ \E f \in Answered : Evaluate(f)

FetchSpec == Init /\ [][FetchNext]_vars

\* getCfClearance with any retries and any answers of the browser
ClearanceNext ==
  \/ \E r \in 0..MaxAttempts : GetCfClearance(r)
  \/ \E answer \in ClearanceAnswers : ClearanceGoto(answer)
  \/ \E gone \in BOOLEAN : ClearanceBanner(gone)
  \/ \E hasTurnstile \in {"true", "false", Rejects} : ClearanceDetect(hasTurnstile)
  \/ \E filled \in BOOLEAN : ClearanceTokenWait(filled)
  \/ \E turnstileToken \in {"token", "", Rejects} : ClearanceTokenRead(turnstileToken)
  \/ \E cookie \in {"cf_clearance", "none", Rejects} : ClearanceCookies(cookie)
  \/ \E ok \in BOOLEAN : ClearanceReload(ok)
  \/ ClearanceCooldown

ClearanceSpec == Init /\ [][ClearanceNext]_vars

\* every command of the browser has a timeout of its own and the timer ends
ClearanceLiveSpec == ClearanceSpec /\ WF_vars(ClearanceNext)

\* the emails of the subscriptions of SequenceSpec
SubscribedEmails == ValidEmails \cup {<<"d", "@", "e", ".", "f">>}

\* several subscriptions and the monitoring loop
SequenceNext ==
  \/ \E c \in Users, email \in SubscribedEmails, chatId \in ChatIds :
       MonitorEmail(c, email, chatId)
  \/ \E c \in Users : MonitorEmailSet(c)
  \/ MonitorTick
  \/ MonitorGetChat
  \/ MonitorCheck
  \/ MonitorDiff
  \/ \E ok \in BOOLEAN : MonitorSend(ok)
  \/ MonitorStore
  \/ \E c \in Callers : LeakCheckGet(c)
  \/ \E c \in Callers, response \in LeakCheckResponses : LeakCheckHttp(c, response)
  \/ \E c \in Callers : XposedGet(c)
  \/ \E c \in Callers, result \in XposedCheckResults : XposedScrape(c, result)
  \/ \E c \in Callers, k \in Checkers : CheckerTimeout(c, k)
  \/ \E c \in Callers : FinishCheckEmailBreaches(c)
  \/ \E key \in AllKeys : Expire(key)

SequenceSpec == Init /\ [][SequenceNext]_vars

\* the emails of the subscriptions of StopSpec: monitorEmail stores what it
\* is given (lines 157-161)
StoredEmails == ValidEmails \cup {<<"n", "o", "t">>}

\* subscriptions of which one cannot be checked, and the monitoring loop
StopNext ==
  \/ \E c \in Users, email \in StoredEmails, chatId \in ChatIds :
       MonitorEmail(c, email, chatId)
  \/ \E c \in Users : MonitorEmailSet(c)
  \/ MonitorTick
  \/ MonitorGetChat
  \/ MonitorCheck
  \/ MonitorDiff
  \/ \E ok \in BOOLEAN : MonitorSend(ok)
  \/ MonitorStore
  \/ \E c \in Callers : LeakCheckGet(c)
  \/ \E c \in Callers, response \in LeakCheckResponses : LeakCheckHttp(c, response)
  \/ \E c \in Callers : XposedGet(c)
  \/ \E c \in Callers, result \in XposedCheckResults : XposedScrape(c, result)
  \/ \E c \in Callers, k \in Checkers : CheckerTimeout(c, k)
  \/ \E c \in Callers : FinishCheckEmailBreaches(c)
  \/ \E key \in AllKeys : Expire(key)

StopSpec == Init /\ [][StopNext]_vars

\* a store with an entry of every namespace, each as the code writes it; the
\* snapshot email:{email} is older than the raw entries of the checkers
FullStore ==
  LET email == CHOOSE e \in ValidEmails : TRUE
      password == PasswordAbc
      leak == leakCheckBreaches(CHOOSE l \in LeakCheckSources : l # <<>>)
      xposed == xposedBreaches(CHOOSE r \in XposedCheckResults : r.breaches[1])
      entries ==
        <<<<Key("email", email), removeDuplicates(leak), EMAIL_TTL>>,
          <<Key("leakcheck", email), leak, LEAKCHECK_TTL>>,
          <<Key("xposed", email), xposed, XPOSED_TTL>>,
          <<Key("analytics", email), getEmptyAnalytics, ANALYTICS_TTL>>,
          <<Key("xposed_analytics", email),
            xposedAnalytics(CHOOSE r \in XposedAnalyticsResults : r.risk[1]),
            ANALYTICS_TTL>>,
          <<Key("monitor", email), CHOOSE chatId \in ChatIds : TRUE, MONITOR_TTL>>,
          <<Key("password", keccak512(password)), computePasswordStats(password),
            PASSWORD_TTL>>,
          <<StatsKey(Metrics[1]), 2, 0>>>>
  IN [key \in {entries[i][1] : i \in 1..Len(entries)} |->
        LET entry == CHOOSE en \in {entries[i] : i \in 1..Len(entries)} : en[1] = key
        IN [val |-> JSONstringify(entry[2]), ttl |-> entry[3]]]

\* the entries of FullStore that checkEmailBreaches reads
CheckKeys == {key \in DOMAIN FullStore : key[1] \in {"email", "leakcheck", "xposed"}}

\* the front-end is in use for some time: any of the entries of an email check
\* may have been written, and any may have expired or not been written yet;
\* the other entries are there or the store is new to them
AdminInit ==
  /\ \E held \in SUBSET CheckKeys, others \in {{}, DOMAIN FullStore \ CheckKeys} :
        redis = [key \in held \cup others |-> FullStore[key]]
  /\ monitoredEmails = <<>>
  /\ call = [c \in Callers |-> IdleCall]
  /\ inv = [c \in Callers |-> [k \in Checkers |-> IdleInv]]
  /\ mon = IdleMon
  /\ used = 0
  /\ pagePool = [i \in 1..maxPages |-> Page(i)]
  /\ pages = maxPages
  /\ fetch = [f \in Fetches |-> IdleFetch]
  /\ dedup = NoDedup
  /\ clearance = IdleClearance
  /\ userStates = <<>>
  /\ handler = [from \in Senders |-> IdleHandler]

AdminCommands == {"clearcache", "clearemailcache", "stats"}

\* the commands of the administrators, from any sender
AdminNext ==
  \/ \E from \in Senders, command \in AdminCommands : AdminCommand(from, command)
  \/ \E from \in Senders : ClearAll(from)
  \/ \E from \in Senders : ClearByPatternKeys(from)
  \/ \E from \in Senders : ClearByPatternDel(from)
  \/ \E from \in Senders : GetStat(from)

AdminSpec == AdminInit /\ [][AdminNext]_vars

\* the administrator clears the email cache, next to email checks
ClearNext ==
  \/ \E from \in ADMIN_IDS : AdminCommand(from, "clearemailcache")
  \/ \E from \in ADMIN_IDS : ClearByPatternKeys(from)
  \/ \E from \in ADMIN_IDS : ClearByPatternDel(from)
  \/ \E c \in Users, email \in ValidEmails : CheckEmailBreaches(c, email)
  \/ \E c \in Users : LeakCheckGet(c)
  \/ \E c \in Users, response \in LeakCheckResponses : LeakCheckHttp(c, response)
  \/ \E c \in Users : XposedGet(c)
  \/ \E c \in Users, result \in XposedCheckResults : XposedScrape(c, result)
  \/ \E c \in Users, k \in Checkers : CheckerTimeout(c, k)
  \/ \E c \in Users : FinishCheckEmailBreaches(c)
  \/ \E key \in CheckKeys : Expire(key)

ClearSpec == AdminInit /\ [][ClearNext]_vars

DialogSpec == Init /\ [][DialogNext]_vars

\* subscriptions, the monitoring loop and analytics requests
MonitoringNext ==
  \/ \E c \in Users, email \in ValidEmails : GetAnalytics(c, email)
  \/ CheckerNext
  \/ MonitorNext
  \/ \E key \in AllKeys : Expire(key)

MonitorSpec == Init /\ [][MonitoringNext]_vars

\* the interactive operations under the scheduling of the runtime: an armed
\* timer fires, and a SET sent to Redis completes.  Remote answers get no
\* fairness: a checker may stay silent for ever
LiveSpec ==
  /\ Init
  /\ [][Next]_vars
  /\ \A c \in Callers : \A k \in Checkers : WF_vars(CheckerTimeout(c, k))
  /\ \A c \in Callers : WF_vars(FinishCheckEmailBreaches(c))

----------------------------------------------------------------------------
(* Properties.  The cache answers every command in every specification but *)
(* FaultSpec, where a command of the orchestrator may fail.                 *)

\* the call of caller c is over and went through the checkers (a cache miss)
MissDone(c, op) ==
  /\ call[c].op = op
  /\ call[c].pc \in {"returned", "thrown"}
  /\ \E k \in Checkers : <<"call", k>> \in call[c].io

FulfilledBy(c, k) == call[c].settled[k].status = "fulfilled"
ListOf(c, k) == IF FulfilledBy(c, k) THEN call[c].settled[k].value ELSE <<>>

\* the lists of the fulfilled checkers, one after the other in the order of
\* registration
Concatenation(c) == ListOf(c, checkers[1]) \o ListOf(c, checkers[2])

LowerName(b) == toLowerCase(b.Name)
LowerNames(list) == {LowerName(list[i]) : i \in 1..Len(list)}
Entries(list) == {list[i] : i \in 1..Len(list)}

\* C1: on a cache miss, whatever way each checker ends (list, rejection,
\* timeout), checkEmailBreaches returns without error, and what it returns is
\* made of the lists of the fulfilled checkers only: every entry comes from
\* one of them, every name of theirs is present once, and nothing is returned
\* when all have failed
PartialFailureTolerated ==
  \A c \in Callers :
    MissDone(c, "checkEmailBreaches") =>
      /\ call[c].pc = "returned"
      /\ call[c].error = "none"
      /\ \A k \in Checkers : call[c].settled[k].status \in {"fulfilled", "rejected"}
      /\ Entries(call[c].result) \subseteq Entries(Concatenation(c))
      /\ LowerNames(call[c].result) = LowerNames(Concatenation(c))
      /\ Len(call[c].result) = Cardinality(LowerNames(Concatenation(c)))
      /\ (\A k \in Checkers : ~FulfilledBy(c, k)) => call[c].result = <<>>

\* C1 witness: the first checker failed, the second answered [B, AD], and
\* the call returned exactly that list
PartialFailureWitness ==
  \E c \in Users :
    /\ MissDone(c, "checkEmailBreaches")
    /\ call[c].settled[checkers[1]].status = "rejected"
    /\ FulfilledBy(c, checkers[2])
    /\ call[c].result = call[c].settled[checkers[2]].value
    /\ Len(call[c].result) = 2

\* C2: a checkEmailBreaches that finds email:{email} in the cache returns
\* the cached value itself, starts no checker and writes nothing to the cache
CacheHitShortCircuits ==
  [][\A c \in Users : \A email \in ValidEmails :
       (Has(Key("email", email)) /\ CheckEmailBreaches(c, email)) =>
          /\ call'[c].pc = "returned"
          /\ call'[c].error = "none"
          /\ call'[c].result = JSONparse(redis[Key("email", email)].val)
          /\ call'[c].io = {<<"get", "email">>}
          /\ \A k \in Checkers : inv'[c][k].pc = "idle"
          /\ redis' = redis]_vars

\* C2 witness: a call has returned from the cache alone, with the cached list
CacheHitWitness ==
  \E c \in Users :
    /\ call[c].op = "checkEmailBreaches"
    /\ call[c].pc = "returned"
    /\ call[c].io = {<<"get", "email">>}
    /\ Has(Key("email", call[c].arg))
    /\ call[c].result = Get(Key("email", call[c].arg))
    /\ call[c].result # <<>>

\* a run of characters without whitespace and without "@", not empty
Part(s) == s # <<>> /\ \A i \in 1..Len(s) : s[i] \notin {" ", "\t", "\n", "@"}

\* local@domain.tld
LocalAtDomainTld(s) ==
  \E i \in 1..Len(s) : \E j \in (i + 1)..Len(s) :
    /\ s[i] = "@"
    /\ s[j] = "."
    /\ Part(SubSeq(s, 1, i - 1))
    /\ Part(SubSeq(s, i + 1, j - 1))
    /\ Part(SubSeq(s, j + 1, Len(s)))

\* C3: checkEmailBreaches and getAnalytics, given a string that is not of the
\* form local@domain.tld, fail with INVALID_EMAIL, having read no cache key,
\* written none and called no checker
MalformedEmailRejected ==
  \A c \in Callers :
    (call[c].op \in {"checkEmailBreaches", "getAnalytics"} /\ ~LocalAtDomainTld(call[c].arg)) =>
      /\ call[c].pc = "thrown"
      /\ call[c].error = "INVALID_EMAIL"
      /\ call[c].io = {}
      /\ \A k \in Checkers : inv[c][k].pc = "idle"
      /\ \A ns \in {"email", "analytics", "leakcheck", "xposed", "xposed_analytics"} :
           ~Has(Key(ns, call[c].arg))

\* C3 witness: getAnalytics was given "a@b" and threw
MalformedEmailWitness ==
  \E c \in Users :
    /\ call[c].op = "getAnalytics"
    /\ call[c].arg = <<"a", "@", "b">>
    /\ call[c].pc = "thrown"

\* the breaches of found whose (Name, Domain) is in no entry of stored
AbsentFrom(found, stored) ==
  SelectSeq(found, LAMBDA b :
    ~\E p \in 1..Len(stored) : stored[p].Name = b.Name /\ stored[p].Domain = b.Domain)

\* C4: when the monitoring loop is through with an email whose previous list
\* P was in the cache, it has sent one notification listing the breaches of
\* the list F it found that are absent from P if there are any, and none
\* otherwise
NewBreachesNotified ==
  (mon.pc = "stored" /\ mon.snapshot[1]) =>
    LET new == AbsentFrom(mon.breaches, mon.snapshot[2])
    IN mon.notified = IF new = <<>> THEN <<>> ELSE <<new>>

\* the positions of list whose name, ignoring case, occurs at no earlier one
FirstOccurrences(list) ==
  {i \in 1..Len(list) : \A j \in 1..(i - 1) : LowerName(list[j]) # LowerName(list[i])}

\* C5: the list a checkEmailBreaches returns on a cache miss, which is the
\* list it caches, has no two names equal ignoring case, and is the
\* concatenation of the checkers' lists cut down to the first occurrence of
\* each name, in the order of the concatenation
DeduplicatedFirstWins ==
  \A c \in Users :
    (MissDone(c, "checkEmailBreaches") /\ call[c].pc = "returned") =>
      LET cat == Concatenation(c)
          kept == FirstOccurrences(cat)
          r == call[c].result
      IN /\ \A i \in 1..Len(r) : \A j \in 1..Len(r) :
                i # j => LowerName(r[i]) # LowerName(r[j])
         /\ Len(r) = Cardinality(kept)
         /\ \A i \in kept : r[Cardinality({j \in kept : j <= i})] = cat[i]
         /\ Has(Key("email", call[c].arg)) => Get(Key("email", call[c].arg)) = r

\* C5 witness: [X, Ad, x] and [B, AD] came back and [X, Ad, B] was returned
DeduplicatedWitness ==
  \E c \in Users :
    /\ MissDone(c, "checkEmailBreaches")
    /\ Len(Concatenation(c)) = 5
    /\ Len(call[c].result) = 3
    /\ call[c].result[3].Name = NameB
    /\ Has(Key("email", call[c].arg))

\* C6: a checkEmailBreaches waiting for its checkers on a cache miss gets to
\* return, a checker that never answers notwithstanding, without error and
\* with every name of every checker that did fulfil
ReturnsDespiteSilentChecker ==
  \A c \in Users :
    (call[c].op = "checkEmailBreaches" /\ call[c].pc = "awaitCheckers")
      ~> (/\ call[c].op = "checkEmailBreaches"
          /\ call[c].pc = "returned"
          /\ call[c].error = "none"
          /\ \A k \in Checkers :
               FulfilledBy(c, k) => LowerNames(ListOf(c, k)) \subseteq LowerNames(call[c].result))

\* C6 witness: the call returned the list of one checker while the other,
\* timed out, has still not answered
SilentCheckerWitness ==
  \E c \in Users : \E k \in Checkers : \E other \in Checkers :
    /\ MissDone(c, "checkEmailBreaches")
    /\ call[c].pc = "returned"
    /\ call[c].settled[k].reason = "timeout"
    /\ inv[c][k].pc = "remote"
    /\ FulfilledBy(c, other)
    /\ call[c].result # <<>>

\* C7: in what checkEmailBreaches returns on a cache miss the checkers'
\* entries stand in the order of registration, and for a name two checkers
\* both report the entry kept is the earlier-registered checker's, whichever
\* of them settled first
MergeIgnoresCompletionOrder ==
  \A c \in Users :
    (MissDone(c, "checkEmailBreaches") /\ call[c].pc = "returned") =>
      LET first == ListOf(c, checkers[1])
          second == ListOf(c, checkers[2])
          r == call[c].result
      IN /\ \A n \in LowerNames(first) :
              \E i \in 1..Len(r) : LowerName(r[i]) = n /\ r[i] \in Entries(first)
         /\ \A i \in 1..Len(r) : \A j \in (i + 1)..Len(r) :
              r[j] \in Entries(first) => r[i] \in Entries(first)

\* C7 witness: the second checker settled first, both reported "ad" in some
\* case, and the entry returned is the first checker's
CompletionOrderWitness ==
  \E c \in Users :
    /\ MissDone(c, "checkEmailBreaches")
    /\ call[c].pc = "returned"
    /\ call[c].order = <<checkers[2], checkers[1]>>
    /\ LowerNames(ListOf(c, checkers[1])) \cap LowerNames(ListOf(c, checkers[2])) # {}
    /\ \E i \in 1..Len(call[c].result) : call[c].result[i].BreachDate = "2013-10"

\* C8: every entry under email: was written to live 86400 seconds (by the
\* aggregation and by the monitoring loop alike), every entry under
\* analytics: to live 604800 seconds
OrchestratorTtls ==
  \A key \in DOMAIN redis :
    /\ key[1] = "email" => redis[key].ttl = 86400
    /\ key[1] = "analytics" => redis[key].ttl = 604800

\* C8 witness: the monitoring loop has just overwritten the snapshot of an
\* email whose analytics are cached too
OrchestratorTtlsWitness ==
  \E email \in ValidEmails :
    /\ mon.pc = "stored"
    /\ mon.email = email
    /\ Has(Key("email", email))
    /\ Has(Key("analytics", email))

\* the checkers that fulfilled with found = true
Finders(c) == {k \in Checkers : FulfilledBy(c, k) /\ call[c].settled[k].value.found}

RECURSIVE CountSum(_, _)
\* the sum of the counts of the checkers of set ks
CountSum(c, ks) ==
  IF ks = {} THEN 0
  ELSE LET k == CHOOSE x \in ks : TRUE
       IN call[c].settled[k].value.count + CountSum(c, ks \ {k})

\* C9: what checkPassword returns on a cache miss for a non-empty password
\* has found = true exactly when some checker fulfilled with found = true,
\* and its count is the sum of the counts of those checkers
PasswordFoundAndCount ==
  \A c \in Users :
    (MissDone(c, "checkPassword") /\ call[c].arg # <<>>) =>
      /\ call[c].pc = "returned"
      /\ call[c].result.found = (Finders(c) # {})
      /\ call[c].result.count = CountSum(c, Finders(c))

\* C9 witness: one checker reported the password found 5 times, the other
\* fulfilled without finding it, and the call returned found with count 5
PasswordFoundWitness ==
  \E c \in Users :
    /\ MissDone(c, "checkPassword")
    /\ Finders(c) = {checkers[2]}
    /\ FulfilledBy(c, checkers[1])
    /\ call[c].result.found
    /\ call[c].result.count = 5

\* how many characters of s are in class
Occurrences(s, class) == Cardinality({i \in 1..Len(s) : s[i] \in class})

\* C10: when no checker reports the password found, checkPassword returns
\* found = false, count = 0 and the digits, letters, other characters and
\* length of the password it was given; 3, 3, 1 and 7 for "abc123!"
PasswordStatsFromInput ==
  \A c \in Users :
    (MissDone(c, "checkPassword") /\ call[c].pc = "returned" /\ Finders(c) = {}) =>
      LET p == call[c].arg
          r == call[c].result
      IN /\ ~r.found
         /\ r.count = 0
         /\ r.digits = Occurrences(p, Digits)
         /\ r.alphabets = Occurrences(p, Letters)
         /\ r.specialChars = Len(p) - Occurrences(p, Digits) - Occurrences(p, Letters)
         /\ r.length = Len(p)
         /\ p = <<"a", "b", "c", "1", "2", "3", "!">> =>
              /\ r.digits = 3
              /\ r.alphabets = 3
              /\ r.specialChars = 1
              /\ r.length = 7

\* C10 witness: "abc123!" was checked, no checker found it, and the call
\* returned 3 digits, 3 letters, 1 other character, length 7
PasswordStatsWitness ==
  \E c \in Users :
    /\ MissDone(c, "checkPassword")
    /\ call[c].pc = "returned"
    /\ call[c].arg = PasswordAbc
    /\ Finders(c) = {}
    /\ call[c].result.digits = 3
    /\ call[c].result.specialChars = 1

\* C11: what a checkPassword that went through the checkers for a non-empty
\* password has returned, match or fallback, is what password:{digest} holds,
\* to live 86400 seconds, for as long as that entry lives, so that a later
\* call with the same password, answered from the entry, returns that value
PasswordEntryHoldsResult ==
  \A c \in Users :
    (MissDone(c, "checkPassword") /\ call[c].pc = "returned" /\ call[c].arg # <<>>) =>
      LET key == Key("password", keccak512(call[c].arg))
      IN Has(key) => /\ Get(key) = call[c].result
                     /\ redis[key].ttl = 86400

\* C12: checkPassword given the empty password returns found = false,
\* count = 0 and zero digits, letters, other characters and length, having
\* read no cache key, written none and called no checker
EmptyPasswordShortCircuits ==
  \A c \in Users :
    (call[c].op = "checkPassword" /\ call[c].arg = <<>>) =>
      /\ call[c].pc = "returned"
      /\ call[c].result = [found |-> FALSE, count |-> 0, digits |-> 0, alphabets |-> 0,
                           specialChars |-> 0, length |-> 0]
      /\ call[c].io = {}
      /\ \A k \in Checkers : inv[c][k].pc = "idle"
      /\ ~Has(Key("password", keccak512(<<>>)))

\* C12 witness: the empty password was checked and the call returned
EmptyPasswordWitness ==
  \E c \in Users :
    /\ call[c].op = "checkPassword"
    /\ call[c].arg = <<>>
    /\ call[c].pc = "returned"
    /\ call[c].result.length = 0

\* the passwords whose digest begins with the same 10 digits as that of p
SamePrefix(p) ==
  {q \in PasswordInputs \ {<<>>} :
     SubSeq(keccak512(q), 1, 10) = SubSeq(keccak512(p), 1, 10)}

\* C13: in a checkPassword the first checker sends no request at all, and a
\* request of the second carries, of the password, the first 10 digits of
\* its digest and nothing else: not the password, not the whole digest, so
\* that it is the request any password with the same 10 digits gives rise to
OnlyDigestPrefixLeaves ==
  \A c \in Users : \A k \in Checkers :
    (inv[c][k].op = "checkPassword" /\ inv[c][k].request # <<>>) =>
      LET password == inv[c][k].arg
          request == inv[c][k].request
      IN /\ k = checkers[2]
         /\ Len(request) = 2
         /\ request[1] = "passwords.xposedornot.com/api/v1/pass/anon/"
         /\ Len(request[2]) = 10
         /\ request[2] = SubSeq(keccak512(password), 1, 10)
         /\ request[2] # keccak512(password)
         /\ request[2] # password
         /\ \A q \in SamePrefix(password) : xposedPasswordUrl(q) = request

\* C13 witness: the request for "a1" is on its way and is the very request
\* "abc123!", a password with another digest, gives rise to
DigestPrefixWitness ==
  \E c \in Users :
    /\ inv[c][checkers[2]].op = "checkPassword"
    /\ inv[c][checkers[2]].pc = "remote"
    /\ inv[c][checkers[2]].arg = PasswordA1
    /\ keccak512(PasswordA1) # keccak512(PasswordAbc)
    /\ inv[c][checkers[2]].request = xposedPasswordUrl(PasswordAbc)

\* C14: whatever checkPassword returns, computed in the call or read from
\* password:{digest}, has digits + alphabets + specialChars <= length
PasswordStatsBounded ==
  \A c \in Users :
    (call[c].op = "checkPassword" /\ call[c].pc = "returned") =>
      call[c].result.digits + call[c].result.alphabets + call[c].result.specialChars
        <= call[c].result.length

\* the positions in the registration order of the checkers that fulfilled
FulfilledPositions(c) == {i \in 1..Len(checkers) : FulfilledBy(c, checkers[i])}

\* C15: a getAnalytics that went past the cache has called the second
\* checker, the one with the analytics capability, and not the first, and has
\* returned the value of the last checker in registration order that
\* fulfilled, or empty lists, zero counts and risk Unknown/0 if none did
AnalyticsLastFulfilledWins ==
  \A c \in Users :
    MissDone(c, "getAnalytics") =>
      /\ call[c].pc = "returned"
      /\ {k \in Checkers : <<"call", k>> \in call[c].io} = {checkers[2]}
      /\ call[c].settled[checkers[1]].status = "none"
      /\ inv[c][checkers[1]].pc = "idle"
      /\ call[c].result =
           IF FulfilledPositions(c) = {}
           THEN [breaches |-> <<>>, breachesDetails |-> <<>>, industries |-> <<>>,
                 passwordStrength |-> [PlainText |-> 0, StrongHash |-> 0, Unknown |-> 0],
                 risk |-> [label |-> "Unknown", score |-> 0],
                 exposedData |-> <<>>, years |-> <<>>]
           ELSE LET last == CHOOSE i \in FulfilledPositions(c) :
                              \A j \in FulfilledPositions(c) : j <= i
                IN call[c].settled[checkers[last]].value

\* C15 witness: the analytics checker fulfilled with two breaches and risk
\* High/7 and that is what the call returned
AnalyticsWitness ==
  \E c \in Users :
    /\ MissDone(c, "getAnalytics")
    /\ FulfilledBy(c, checkers[2])
    /\ call[c].result.risk = [label |-> "High", score |-> 7]
    /\ Len(call[c].result.breaches) = 2

\* C16: a monitorEmail(email, chatId) ends with email in the active set and
\* monitor:{email} holding chatId without expiry; made for an email that is
\* in the set already, it leaves the set as it is, and its SET, finding
\* chatId stored, leaves the cache as it is
MonitorEmailIdempotent ==
  [][\A c \in Users :
       /\ \A email \in ValidEmails : \A chatId \in ChatIds :
            MonitorEmail(c, email, chatId) =>
              /\ \E i \in 1..Len(monitoredEmails') : monitoredEmails'[i] = email
              /\ (\E i \in 1..Len(monitoredEmails) : monitoredEmails[i] = email)
                   => monitoredEmails' = monitoredEmails
       /\ MonitorEmailSet(c) =>
            LET key == Key("monitor", call[c].arg)
            IN /\ key \in DOMAIN redis'
               /\ JSONparse(redis'[key].val) = call[c].result
               /\ redis'[key].ttl = 0
               /\ \E i \in 1..Len(monitoredEmails') : monitoredEmails'[i] = call[c].arg
               /\ (Has(key) /\ Get(key) = call[c].result) => redis' = redis]_vars

\* C16 witness: with a first monitorEmail complete, a second one for the same
\* email and chat id has added to the set, which still has its one member
MonitorEmailTwiceWitness ==
  \E c \in Users :
    /\ call[c].op = "monitorEmail"
    /\ call[c].pc = "awaitSet"
    /\ Has(Key("monitor", call[c].arg))
    /\ Get(Key("monitor", call[c].arg)) = call[c].result
    /\ monitoredEmails = <<call[c].arg>>

\* the loop is at work on a subscription whose chat id it has found
Processing(m) == m.pc \in {"check", "awaitCheck", "send", "store"}

\* the step is the overwrite of email:{email} with the list the re-check gave
SnapshotOverwritten ==
  /\ mon'.pc = "stored"
  /\ Key("email", mon.email) \in DOMAIN redis'
  /\ JSONparse(redis'[Key("email", mon.email)].val) = call[Monitor].result
  /\ call[Monitor].op = "checkEmailBreaches"
  /\ call[Monitor].arg = mon.email
  /\ call[Monitor].pc = "returned"

ChatIdAbsent ==
  /\ mon.pc \in {"getChat", "stored"}
  /\ mon.i \in 1..Len(monitoredEmails)
  /\ LET key == Key("monitor", monitoredEmails[mon.i])
     IN ~Has(key) \/ Get(key) = 0

\* C18: the loop takes up a subscription only when it is through with the one
\* before, re-check returned, notification sent and snapshot written, so that
\* a checkEmailBreaches of the loop is in flight only for the subscription it
\* is at and none is when the next re-check starts; and it passes over a
\* subscription without chat id with no check, no notification, no cache write
MonitorOneAtATime ==
  [][/\ (mon'.pc = "check" /\ mon # mon') =>
          /\ ~Processing(mon)
          /\ call[Monitor].pc # "awaitCheckers"
     /\ call'[Monitor].pc = "awaitCheckers" =>
          /\ mon'.pc = "awaitCheck"
          /\ call'[Monitor].arg = mon'.email
          /\ mon'.email = monitoredEmails[mon'.i]
     /\ (ChatIdAbsent /\ mon # mon') =>
          /\ mon'.pc = "getChat"
          /\ mon'.i = mon.i + 1
          /\ mon'.notified = mon.notified
          /\ call'[Monitor] = call[Monitor]
          /\ inv'[Monitor] = inv[Monitor]
          /\ redis' = redis]_vars

\* C18 witness: the re-check of the second subscription is in flight, and
\* the snapshot of the first has been written
MonitorSecondWitness ==
  /\ Len(monitoredEmails) = 2
  /\ mon.i = 2
  /\ mon.pc = "awaitCheck"
  /\ call[Monitor].pc = "awaitCheckers"
  /\ call[Monitor].arg = monitoredEmails[2]
  /\ Has(Key("email", monitoredEmails[1]))

\* C19: no step takes an email out of the active set, and no step deletes a
\* monitor:{email} key or lets it expire
SubscriptionsOnlyGrow ==
  [][/\ \A i \in 1..Len(monitoredEmails) :
          /\ i <= Len(monitoredEmails')
          /\ monitoredEmails'[i] = monitoredEmails[i]
     /\ \A key \in DOMAIN redis :
          key[1] = "monitor" => /\ key \in DOMAIN redis'
                                /\ redis'[key].ttl = 0]_vars

\* C19 witness: two emails were added, the loop has been through a
\* subscription and other keys have been written, and both emails are in the
\* set with their monitor: keys
SubscriptionsWitness ==
  /\ Len(monitoredEmails) = 2
  /\ \A i \in 1..2 : Has(Key("monitor", monitoredEmails[i]))
  /\ mon.pc = "stored"
  /\ Has(Key("email", mon.email))

\* C20: a checkEmailBreaches or getAnalytics during which a cache get or set
\* has failed does not fail: it returns
CacheFailureTolerated ==
  \A c \in Users :
    (/\ call[c].op \in {"checkEmailBreaches", "getAnalytics"}
     /\ call[c].pc \in {"returned", "thrown"}
     /\ \E ns \in {"email", "analytics"} :
          <<"getFailed", ns>> \in call[c].io \/ <<"setFailed", ns>> \in call[c].io) =>
      /\ call[c].pc = "returned"
      /\ call[c].error = "none"

\* C21: with maxAttempts = 3 and a block signal (403) on every navigation, a
\* fetch navigates three times and then fails with the block error; a block
\* signal on an earlier attempt does not fail it
BlockedAfterAllAttempts ==
  \A f \in Fetches :
    /\ (fetch[f].pc = "thrown" /\ fetch[f].error = "CLOUDFLARE_ERROR") =>
         fetch[f].gotos = retries
    /\ (fetch[f].status = 403 /\ fetch[f].gotos < retries) => fetch[f].pc # "thrown"

NotFoundEndsFetch ==
  \A f \in Fetches :
    fetch[f].status = 404 =>
      /\ fetch[f].pc = "returned"
      /\ ~fetch[f].responseData
      /\ fetch[f].error = "none"

\* C24: removeDuplicates applied to its own result changes nothing, and of
\* the names of a list that differ in letter case only (Ad, AD) one entry,
\* the first, is left
DeduplicationIdempotent ==
  [][/\ dedup.times >= 1 => dedup'.output = dedup.output
     /\ \A i, j \in 1..Len(dedup'.output) :
          LowerName(dedup'.output[i]) = LowerName(dedup'.output[j]) => i = j
     /\ LowerNames(dedup'.output) = LowerNames(dedup.input)
     /\ \A b \in Entries(dedup'.output) :
          \E i \in FirstOccurrences(dedup.input) : dedup.input[i] = b]_vars

DeduplicationWitness ==
  /\ dedup.times = MaxApplications
  /\ \E i, j \in 1..Len(dedup.input) :
       /\ i < j
       /\ dedup.input[i].Name = NameAd
       /\ dedup.input[j].Name = NameAD
  /\ Len(dedup.output) < Len(dedup.input)
  /\ \E i \in 1..Len(dedup.output) : dedup.output[i].Name = NameAd

\* the watchdog of call c has rejected for checker k
TimedOut(c, k) == call[c].settled[k] = Rejected("timeout")

\* C25: a per-checker timeout cancels the work of that checker, which writes
\* nothing to the cache afterwards, and cancels neither the other checkers
\* nor the call
TimeoutCancelsOnlyItsChecker ==
  [][\A c \in Callers : \A k \in Checkers :
       /\ (TimedOut(c, k) /\ inv'[c][k] # inv[c][k]) => redis' = redis
       /\ (~TimedOut(c, k) /\ call'[c].settled[k] = Rejected("timeout")) =>
            /\ inv'[c] = inv[c]
            /\ call'[c].pc = "awaitCheckers"
            /\ \A j \in Checkers \ {k} : call'[c].settled[j] = call[c].settled[j]]_vars

\* the pages that exist and the fetches that hold one
CreatedPages == {Page(n) : n \in 1..pages}
Holding(f) == fetch[f].page # NoPage

\* C26: a fetch that finds the pool empty has a page created and goes on with
\* a page that exists; no fetch is ever handed the absent page and the absent
\* page is never put into the pool
AcquisitionYieldsPage ==
  [][/\ \A i \in 1..Len(pagePool') : pagePool'[i] \in CreatedPages'
     /\ \A f \in Fetches :
          /\ fetch'[f].page \in CreatedPages' \cup {NoPage}
          /\ fetch'[f].error # "TypeError"
          /\ (fetch[f].pc = "idle" /\ fetch'[f].pc # "idle" /\ pagePool = <<>>) =>
               fetch'[f].pc = "addPageToPool"
          /\ (fetch[f].pc = "addPageToPool" /\ fetch'[f].pc = "setCookie") =>
               /\ pages' = pages + 1
               /\ fetch'[f].page \in CreatedPages']_vars

AcquisitionWitness ==
  /\ pages > maxPages
  /\ \E f \in Fetches :
       f > maxPages /\ fetch[f].pc = "setCookie" /\ fetch[f].page = Page(maxPages)

\* C27: each page that exists is once in the pool or held by one fetch in
\* flight, never both and never twice
PageExclusivelyOwned ==
  \A p \in CreatedPages :
    Cardinality({i \in 1..Len(pagePool) : pagePool[i] = p})
      + Cardinality({f \in Fetches : fetch[f].page = p}) = 1

ExclusiveWitness ==
  /\ pagePool # <<>>
  /\ pages > maxPages
  /\ Cardinality({f \in Fetches : Holding(f)}) >= maxPages
  /\ \E f \in Fetches : fetch[f].pc \in {"returned", "thrown"}

\* C28: a fetch gives its page back however it ends, so the pages of the pool
\* and the pages held are as many as the pages created, of which there are 5
\* at first and never fewer later, and with no fetch in flight every page
\* created is in the pool
PoolConservation ==
  [][/\ Len(pagePool') + Cardinality({f \in Fetches : fetch'[f].page # NoPage}) = pages'
     /\ pages' >= pages
     /\ pages >= maxPages
     /\ \A f \in Fetches :
          fetch'[f].pc \in {"returned", "thrown"} => fetch'[f].page = NoPage
     /\ (\A f \in Fetches : fetch'[f].pc \in {"idle", "returned", "thrown"}) =>
          {pagePool'[i] : i \in 1..Len(pagePool')} = CreatedPages']_vars

ConservationWitness ==
  /\ pages > maxPages
  /\ Len(pagePool) = pages
  /\ \E f \in Fetches : fetch[f].pc = "returned"
  /\ \E f \in Fetches : fetch[f].pc = "thrown" /\ fetch[f].error = "SCRAPE_ERROR"

\* the keys a step writes, and the namespaces of the orchestrator
WrittenKeys == {key \in DOMAIN redis' : key \notin DOMAIN redis \/ redis'[key] # redis[key]}
OrchestratorNamespaces == {"email", "password", "analytics", "monitor"}

\* C29: a step of a checker writes keys of that checker's raw namespace only
\* (leakcheck for LeakCheck, xposed and xposed_analytics for XposedOrNot), and
\* a step of the orchestrator writes email, password, analytics and monitor
\* keys only
NamespaceOwnership ==
  [][/\ \A c \in Callers :
          /\ inv'[c][LeakCheck] # inv[c][LeakCheck] /\ inv[c][LeakCheck].pc # "idle" =>
               \A key \in WrittenKeys : key[1] = "leakcheck"
          /\ inv'[c][Xposed] # inv[c][Xposed] /\ inv[c][Xposed].pc # "idle" =>
               \A key \in WrittenKeys : key[1] \in {"xposed", "xposed_analytics"}
     /\ inv' = inv => \A key \in WrittenKeys : key[1] \in OrchestratorNamespaces]_vars

\* C30: in each operation of a checker a not-found answer gives the caller
\* an empty or zero result and leaves it in the cache under the checker's
\* key, and an error rejects the checker's promise and leaves the cache as it
\* was
NotFoundCachedErrorRejected ==
  [][\A c \in Callers :
       LET waiting(k) == call[c].pc = "awaitCheckers" /\ call[c].settled[k].status = "pending"
           rejected(k) == waiting(k) => call'[c].settled[k].status = "rejected"
           empty(k, value) == waiting(k) => call'[c].settled[k] = Fulfilled(value)
           cached(key, value) == key \in DOMAIN redis' /\ JSONparse(redis'[key].val) = value
       IN /\ \A response \in LeakCheckResponses : LeakCheckHttp(c, response) =>
               /\ response.kind = "error" => rejected(LeakCheck) /\ redis' = redis
               /\ (response.kind = "ok" /\ response.sources = <<>>) =>
                    /\ empty(LeakCheck, <<>>)
                    /\ cached(Key("leakcheck", inv[c][LeakCheck].arg), <<>>)
          /\ \A result \in XposedCheckResults : XposedScrape(c, result) =>
               /\ result.kind = "error" => rejected(Xposed) /\ redis' = redis
               /\ (result.kind = "json" /\ ~result.breaches[1]) =>
                    /\ empty(Xposed, <<>>)
                    /\ cached(Key("xposed", inv[c][Xposed].arg), <<>>)
          /\ \A result \in XposedAnalyticsResults : XposedAnalyticsScrape(c, result) =>
               /\ result.kind = "error" => rejected(Xposed) /\ redis' = redis
               /\ (result.kind = "json" /\ result.site = <<>>) =>
                    /\ empty(Xposed, xposedAnalytics(result))
                    /\ xposedAnalytics(result).breaches = <<>>
                    /\ cached(Key("xposed_analytics", inv[c][Xposed].arg),
                              xposedAnalytics(result))
          /\ \A result \in XposedPasswordResults : XposedPasswordScrape(c, result) =>
               /\ result.kind = "error" => rejected(Xposed) /\ redis' = redis
               /\ result.kind = "notFound" =>
                    /\ waiting(Xposed) => /\ call'[c].settled[Xposed].status = "fulfilled"
                                          /\ ~call'[c].settled[Xposed].value.found
                                          /\ call'[c].settled[Xposed].value.count = 0]_vars

\* the protocol has ended
ClearanceEnded == clearance.pc \in {"returned", "thrown"}

\* C31: whatever retries >= 1 it is given and whatever the browser answers,
\* getCfClearance navigates at most retries times and ends, with the value of
\* the cookie or with an error
ClearanceBoundedAndEnds ==
  /\ [](clearance.gotos <= clearance.retries /\ clearance.attempt <= clearance.retries + 1)
  /\ [](ClearanceEnded => (clearance.pc = "thrown") = (clearance.error # "none"))
  /\ (clearance.pc # "idle") ~> ClearanceEnded

ClearanceWitness ==
  /\ clearance.retries = MaxAttempts
  /\ clearance.gotos = MaxAttempts
  /\ clearance.reloads = MaxAttempts - 1
  /\ clearance.cooldowns < clearance.reloads
  /\ clearance.pc = "returned"

\* C32: after a cookie that is absent with attempts left the page is
\* reloaded, the cooldown is waited and only then the next attempt navigates;
\* a cookie absent on the last attempt fails the protocol with no reload and
\* no cooldown
AbsentCookieReloadsAndCoolsDown ==
  [][/\ (clearance.pc = "cookies" /\ clearance'.pc = "reload") =>
          clearance.attempt < clearance.retries /\ clearance'.attempt = clearance.attempt
     /\ clearance.pc = "reload" =>
          /\ clearance'.pc = "cooldown"
          /\ clearance'.reloads = clearance.reloads + 1
          /\ clearance'.attempt = clearance.attempt
     /\ clearance.pc = "cooldown" =>
          /\ clearance'.pc = "goto"
          /\ clearance'.attempt = clearance.attempt + 1
          /\ clearance'.cooldowns = clearance.cooldowns + 1
     /\ (clearance.pc = "cookies" /\ clearance'.error = AfterAllAttempts) =>
          /\ clearance.attempt = clearance.retries
          /\ clearance'.pc = "thrown"
          /\ clearance'.reloads = clearance.reloads
          /\ clearance'.cooldowns = clearance.cooldowns]_vars

\* C33: the wait for the banner never ends the attempt, timed out or not: the
\* detection of the widget follows in the same attempt; a widget whose token
\* is absent after the wait for it ends the attempt, which fails the protocol
\* on the last attempt and starts the next attempt otherwise
BannerTimeoutToleratedTokenRequired ==
  [][/\ clearance.pc = "banner" =>
          /\ clearance'.pc = "detect"
          /\ clearance'.attempt = clearance.attempt
     /\ (clearance.pc = "tokenWait" /\ clearance'.pc # "tokenRead")
        \/ (clearance.pc = "tokenRead" /\ clearance'.pc # "cookies") =>
          IF clearance.attempt = clearance.retries
          THEN clearance'.pc = "thrown" /\ clearance'.error = AfterRetriesAttempts
          ELSE /\ clearance'.pc = "goto"
               /\ clearance'.attempt = clearance.attempt + 1
               /\ clearance'.gotos = clearance.gotos]_vars

BannerTokenWitness ==
  /\ clearance.retries = 2
  /\ clearance.attempt = 2
  /\ clearance.warned
  /\ clearance.pc = "thrown"
  /\ clearance.cause = NoTurnstileToken
  /\ clearance.reloads = 0

\* C34: the loop reads email:{email} as the previous list once its own
\* checkEmailBreaches has returned; when the entry that call left is still
\* there (no expiry since, and the loop is the only writer of email: keys
\* here), what is read is the list the call returned, so nothing is new
SnapshotReadAfterRecheck ==
  [][(mon.pc = "awaitCheck" /\ mon'.pc \in {"send", "store"}) =>
       /\ call[Monitor].pc = "returned"
       /\ mon'.breaches = call[Monitor].result
       /\ Has(Key("email", mon.email)) =>
            /\ mon'.previous = Some(call[Monitor].result)
            /\ mon'.newBreaches = <<>>
            /\ mon'.pc = "store"]_vars

SnapshotReadWitness ==
  /\ mon.pc = "store"
  /\ mon.breaches # <<>>
  /\ mon.previous = Some(mon.breaches)
  /\ mon.snapshot[1]
  /\ mon.snapshot[2] # mon.breaches

EmptyResultCachedAndHit ==
  [][\A c \in Users :
       LET cacheKey == Key("email", call[c].arg)
       IN /\ (FinishCheckEmailBreaches(c)
              /\ \A k \in Checkers : call[c].settled[k].status = "rejected") =>
               /\ call'[c].result = <<>>
               /\ redis'[cacheKey] = [val |-> JSONstringify(<<>>), ttl |-> 24 * 60 * 60]
          /\ \A email \in ValidEmails :
               (CheckEmailBreaches(c, email)
                /\ Has(Key("email", email)) /\ Get(Key("email", email)) = <<>>) =>
                 /\ call'[c].pc = "returned"
                 /\ call'[c].result = <<>>
                 /\ \A k \in Checkers : inv'[c][k].pc = "idle"
                 /\ redis' = redis]_vars

EmptyResultWitness ==
  \E c \in Users :
    /\ call[c].op = "checkEmailBreaches"
    /\ call[c].pc = "returned"
    /\ call[c].io = {<<"get", "email">>}
    /\ call[c].result = <<>>
    /\ Has(Key("email", call[c].arg))
    /\ ~Has(Key("leakcheck", call[c].arg))
    /\ ~Has(Key("xposed", call[c].arg))
    /\ used = 2

\* C37: when the fetch of the analytics fails, getAnalytics of XposedOrNot
\* fulfils with the zero-value Analytics and writes nothing; getAnalytics of
\* the orchestrator returns that value and writes it to analytics:{email}
\* with a TTL of 604800 s, and a call that finds it there returns it at once
\* without invoking a checker
FailedAnalyticsCachedAsZero ==
  [][\A c \in Users :
       LET cacheKey == Key("analytics", call[c].arg)
       IN /\ \A result \in XposedAnalyticsResults :
               (XposedAnalyticsScrape(c, result) /\ result.kind = "error") =>
                 /\ redis' = redis
                 /\ (call[c].pc = "awaitCheckers" /\ call[c].settled[Xposed].status = "pending") =>
                      call'[c].settled[Xposed] = Fulfilled(getEmptyAnalytics)
          /\ (FinishGetAnalytics(c) /\ call[c].settled[Xposed] = Fulfilled(getEmptyAnalytics)) =>
               /\ call'[c].result = getEmptyAnalytics
               /\ redis'[cacheKey] = [val |-> JSONstringify(getEmptyAnalytics), ttl |-> 604800]
          /\ \A email \in ValidEmails :
               (GetAnalytics(c, email)
                /\ Has(Key("analytics", email))
                /\ Get(Key("analytics", email)) = getEmptyAnalytics) =>
                 /\ call'[c].pc = "returned"
                 /\ call'[c].result = getEmptyAnalytics
                 /\ \A k \in Checkers : inv'[c][k].pc = "idle"
                 /\ redis' = redis]_vars

FailedAnalyticsWitness ==
  \E c \in Users :
    /\ call[c].op = "getAnalytics"
    /\ call[c].pc = "returned"
    /\ call[c].io = {<<"get", "analytics">>}
    /\ call[c].result = getEmptyAnalytics
    /\ inv[c][Xposed].pc = "idle"
    /\ redis[Key("analytics", call[c].arg)].ttl = 604800
    /\ ~Has(Key("xposed_analytics", call[c].arg))
    /\ used = 2

\* the administrator of ADMIN_IDS
Admin == CHOOSE from \in ADMIN_IDS : TRUE

\* C38: clearing the email cache (clearByPattern with email:*) deletes only
\* keys that start with email: and leaves the leakcheck:, xposed:, password:,
\* analytics:, monitor: and stats keys as they are; in a following
\* checkEmailBreaches a checker that holds a live raw entry answers with it
\* and sends no request, and the call returns the deduplicated merge of the
\* entries
EmailCacheClearedAlone ==
  [][/\ \A from \in Senders :
          (ClearByPatternKeys(from) \/ ClearByPatternDel(from)) =>
            /\ DOMAIN redis' \subseteq DOMAIN redis
            /\ \A key \in DOMAIN redis :
                 key[1] # "email" => key \in DOMAIN redis' /\ redis'[key] = redis[key]
     /\ \A c \in Users :
          LET leakKey == Key("leakcheck", inv[c][LeakCheck].arg)
              xposedKey == Key("xposed", inv[c][Xposed].arg)
              held == /\ inv[c][LeakCheck].pc = "done"
                      /\ inv[c][Xposed].pc = "done"
                      /\ inv[c][LeakCheck].request = <<>>
                      /\ inv[c][Xposed].request = <<>>
                      /\ \A k \in Checkers : call[c].settled[k].status = "fulfilled"
          IN /\ (LeakCheckGet(c) /\ Has(leakKey)) =>
                  /\ inv'[c][LeakCheck] = [inv[c][LeakCheck] EXCEPT !.pc = "done"]
                  /\ inv'[c][LeakCheck].request = <<>>
                  /\ call[c].settled[LeakCheck].status = "pending" =>
                       call'[c].settled[LeakCheck] = Fulfilled(Get(leakKey))
             /\ (XposedGet(c) /\ Has(xposedKey)) =>
                  /\ inv'[c][Xposed] = [inv[c][Xposed] EXCEPT !.pc = "done"]
                  /\ inv'[c][Xposed].request = <<>>
                  /\ call[c].settled[Xposed].status = "pending" =>
                       call'[c].settled[Xposed] = Fulfilled(Get(xposedKey))
             /\ (FinishCheckEmailBreaches(c) /\ held) =>
                  call'[c].result =
                    removeDuplicates(call[c].settled[LeakCheck].value
                                     \o call[c].settled[Xposed].value)]_vars

\* the email cache was cleared of the old snapshot, the other entries are
\* all there, and the check after it gave the merge of the two raw entries
\* with no request sent
EmailCacheClearedWitness ==
  \E c \in Users :
    LET email == call[c].arg
    IN /\ handler[Admin].op = "clearemailcache"
       /\ handler[Admin].reply = "cleared"
       /\ handler[Admin].found = {Key("email", email)}
       /\ DOMAIN FullStore \subseteq DOMAIN redis
       /\ \A key \in DOMAIN FullStore : key[1] # "email" => redis[key] = FullStore[key]
       /\ call[c].op = "checkEmailBreaches"
       /\ call[c].pc = "returned"
       /\ <<"call", LeakCheck>> \in call[c].io
       /\ \A k \in Checkers : inv[c][k].pc = "done" /\ inv[c][k].request = <<>>
       /\ call[c].result = removeDuplicates(Get(Key("leakcheck", email))
                                            \o Get(Key("xposed", email)))
       /\ call[c].result # JSONparse(FullStore[Key("email", email)].val)

\* C39: clearcache, clearemailcache and stats reach the cache only for a
\* sender of ADMIN_IDS; from every other sender, and from an update with no
\* sender id, the command ends at its reply and reads, deletes and changes no
\* key
AdminCommandsGated ==
  [][\A from \in Senders :
       /\ (ClearAll(from) \/ ClearByPatternKeys(from) \/ ClearByPatternDel(from)
           \/ GetStat(from)) => from \in ADMIN_IDS
       /\ \A command \in AdminCommands :
            AdminCommand(from, command) =>
              IF from \in ADMIN_IDS
              THEN handler'[from].pc = command
              ELSE /\ redis' = redis
                   /\ handler'[from].pc = "replied"
                   /\ handler'[from].reply \in {"unknownUser", "adminsOnly"}
                   /\ handler'[from].reads = {}
                   /\ handler'[from].found = {}
                   /\ handler'[from].stats = <<>>]_vars

\* the three kinds of sender have sent a command: the administrator got the
\* statistics, the others a refusal, and the store is as it was
AdminGateWitness ==
  /\ handler[Admin].reply = "stats"
  /\ handler[Admin].stats = <<2, 0, 0>>
  /\ handler[Admin].reads = {StatsKey(Metrics[i]) : i \in 1..Len(Metrics)}
  /\ handler[NoSender].reply = "unknownUser"
  /\ \E from \in ChatIds : handler[from].reply = "adminsOnly" /\ handler[from].op = "clearcache"
  /\ redis = FullStore

\* the stored attempts of every user are below MAX_ATTEMPTS
AttemptsBelowMax ==
  \A from \in DOMAIN userStates : userStates[from].attempts \in 0..(MAX_ATTEMPTS - 1)

\* the sender is asked for an email
AwaitingAnEmail(from) ==
  /\ from \in DOMAIN userStates
  /\ userStates[from].state \in {AWAITING_EMAIL, AWAITING_MONITOR_EMAIL}

\* a text that is not empty and not an email arrives from a sender who is
\* asked for one
MalformedEmailArrives(from, message) ==
  /\ OnText(from, message)
  /\ AwaitingAnEmail(from)
  /\ trim(message) # <<>>
  /\ ~emailRegexTest(trim(message))

\* a malformed email adds one to the attempts and calls no operation; the
\* third deletes the state
MalformedCounted ==
  \A from \in Senders, message \in Texts :
    MalformedEmailArrives(from, message) =>
      /\ handler'[from] = handler[from] \/ handler'[from].pc = "replied"
      /\ redis' = redis /\ call' = call /\ inv' = inv
      /\ monitoredEmails' = monitoredEmails
      /\ userStates[from].attempts = MAX_ATTEMPTS - 1 => from \notin DOMAIN userStates'
      /\ userStates[from].attempts < MAX_ATTEMPTS - 1 =>
           userStates' = setState(userStates, from,
                                  [userStates[from] EXCEPT !.attempts = @ + 1])

\* a command or a button that enters a waiting state stores it with no attempts
EntryResets ==
  \A from \in Senders \ {NoSender}, entry \in DOMAIN WaitingStates :
    Enter(from, entry) =>
      userStates'[from] = [state |-> WaitingStates[entry], attempts |-> 0]

\* an operation that throws leaves the states as they are
KeptOnThrow == \A from \in Senders : OperationSettles(from, FALSE) => userStates' = userStates

\* this step deletes the state of the sender
StateDeleted(from) == from \in DOMAIN userStates /\ from \notin DOMAIN userStates'

\* the step is the third malformed email of the sender, or the end of a
\* handler of theirs whose operation returned without error
AfterOperationOrThird(from) ==
  \/ Reply(from, TRUE)
  \/ \E message \in Texts :
       MalformedEmailArrives(from, message) /\ userStates[from].attempts = MAX_ATTEMPTS - 1

\* C40 as stated: in the dialogue of every user the stored attempts are
\* always below 3; a malformed email in the awaiting-email or
\* awaiting-monitor-email state adds one and calls no operation, the third
\* deletes the state, every command or button that enters a waiting state
\* stores 0, the state is kept when the operation throws, and no step but
\* the one after an operation that returned without error deletes the state
DialogueDeletesOnlyAfterOperation ==
  /\ []AttemptsBelowMax
  /\ [][/\ MalformedCounted
        /\ EntryResets
        /\ KeptOnThrow
        /\ \A from \in Senders : StateDeleted(from) => AfterOperationOrThird(from)]_vars

\* C40, amended: the same, and the state is deleted only by /start or after
\* the requested operation returned without error
DialogueStateMachine ==
  /\ []AttemptsBelowMax
  /\ [][/\ MalformedCounted
        /\ EntryResets
        /\ KeptOnThrow
        /\ \A from \in Senders :
             StateDeleted(from) => Start(from) \/ AfterOperationOrThird(from)]_vars

\* a user was asked for an email, sent a malformed one and then an email
\* whose check threw: the state is kept with its one attempt, and the check
\* was counted
DialogueWitness ==
  \E from \in Senders :
    /\ handler[from].op = "checkEmail"
    /\ handler[from].reply = "error"
    /\ handler[from].text \in ValidEmails
    /\ from \in DOMAIN userStates
    /\ userStates[from] = [state |-> AWAITING_EMAIL, attempts |-> 1]
    /\ Has(StatsKey(Metrics[1]))

====
